---- MODULE Spec2Model ----
(***************************************************************************)
(* The SPWidgets Board widget (src/src/boardWidget/board.js): resolution   *)
(* of the board columns from a list field, column visibility, the          *)
(* reconciliation of rendered items against fetched rows, and the          *)
(* drag-and-drop update protocol.                                          *)
(*                                                                         *)
(* One widget instance on one element is modelled.  The remote services    *)
(* (getListColumns, getListItems, updateListItems), the item template and  *)
(* the caller's callbacks are the environment: their answers are inputs.   *)
(* The item template is taken to produce non-empty markup for every row    *)
(* (as the default template does), and field values are taken not to be    *)
(* names of Object.prototype members.                                      *)
(***************************************************************************)
EXTENDS Integers, Sequences, FiniteSets, TLC

---------------------------------------------------------------------------
(* Bounds of the model *)

\* rows in one fetched record set
MaxRows == 2
\* record identifiers are 1..MaxId
MaxId == 2
\* length of the free-form identifier arrays given to setVisible
MaxColList == 2
\* refresh fetches in flight at the same time
MaxFetch == 1
\* refresh fetches in flight at the same time where refreshes overlap
MaxOverlap == 2
\* remote updates (drag gestures) in flight at the same time
MaxDrag == 1
MaxInFlight == 2
MaxGet == 2

(* Program constants *)

\* Board.maxColumns
maxColumns == 20
\* opt.maxColumnVisible
maxColumnVisible == 10
\* Board.defaults.optionalLabel
optionalLabel == "(none)"

---------------------------------------------------------------------------
(* Generic helpers *)

Range(s) == { s[i] : i \in 1..Len(s) }

\* $.inArray(x, arr) > -1
InArray(x, arr) == \E i \in 1..Len(arr) : arr[i] = x

SeqsUpTo(S, n) == UNION { [1..k -> S] : k \in 0..n }

RECURSIVE Flatten(_)
Flatten(ss) == IF ss = <<>> THEN <<>> ELSE Head(ss) \o Flatten(Tail(ss))

RECURSIVE SumSeq(_)
SumSeq(s) == IF s = <<>> THEN 0 ELSE Head(s) + SumSeq(Tail(s))

\* String.prototype.toLowerCase on the strings the model uses
toLowerCase(s) ==
    CASE s \in {"all", "All", "ALL"} -> "all"
      [] s \in {"choice", "Choice"}  -> "choice"
      [] s \in {"lookup", "Lookup"}  -> "lookup"
      [] OTHER                       -> s

\* Strings that JavaScript converts to a number and back without change
\* (+s + "" === s), among the strings the model uses.
Digits == << "0", "1", "2", "3", "4", "5", "6", "7", "8", "9" >>
IsNumericString(s) == InArray(s, Digits)

\* jQuery .data(key) on an element whose value comes from a data-* attribute:
\* the attribute's string is converted to a JavaScript value (a number when
\* the conversion round-trips, else the string).
jqData(attr) == [isNum |-> IsNumericString(attr), s |-> attr]

\* data !== str, for a value read with .data() and a string
StrictNotEqual(data, str) == data.isNum \/ data.s # str

---------------------------------------------------------------------------
(* The JavaScript object opt.statesMap: its own keys in insertion order    *)
(* and the index in opt.states of the state each key refers to.            *)

EmptyMap == [keys |-> <<>>, idx |-> <<>>]

MapHas(m, k) == InArray(k, m.keys)

MapGet(m, k) == m.idx[CHOOSE i \in 1..Len(m.keys) : m.keys[i] = k]

MapPut(m, k, v) ==
    IF MapHas(m, k)
    THEN [m EXCEPT !.idx[CHOOSE i \in 1..Len(m.keys) : m.keys[i] = k] = v]
    ELSE [keys |-> Append(m.keys, k), idx |-> Append(m.idx, v)]

\* for-in / $.each order of an object's keys: integer keys ascending, then
\* the other keys in insertion order.
MapEnumKeys(m) ==
    SelectSeq(Digits, LAMBDA d : MapHas(m, d))
        \o SelectSeq(m.keys, LAMBDA k : ~IsNumericString(k))

---------------------------------------------------------------------------
(* getBoardStates: the columns of the board from the field definition *)

\* Variant of isStateRequired that follows the Required flag only; C14 does
\* not hold of it.
isStateRequiredByFlag(f, o) == f.Required = "TRUE"

\* opt.isStateRequired after the Required flag and the allowFieldBlanks
\* override ("true"/"false" stand for the booleans, "null" for no override)
isStateRequired(f, o) ==
    IF o.allowFieldBlanks \in {"true", "false"}
    THEN o.allowFieldBlanks = "false"
    ELSE f.Required = "TRUE"

NewState(type, title, name) == [type |-> type, title |-> title, name |-> name]

PushState(acc, key, st) ==
    [states    |-> Append(acc.states, st),
     statesMap |-> MapPut(acc.statesMap, key, Len(acc.states) + 1)]

NoStates == [states |-> <<>>, statesMap |-> EmptyMap]

\* f.getColumnValues().some(...) of a choice field; i is the 1-based
\* position, the code's index is i - 1.
RECURSIVE choiceLoop(_, _, _, _)
choiceLoop(vals, i, fieldFilter, acc) ==
    IF i > Len(vals) THEN acc
    ELSE LET colValue == vals[i] IN
         IF fieldFilter # <<>> /\ ~InArray(colValue, fieldFilter)
         THEN choiceLoop(vals, i + 1, fieldFilter, acc)
         ELSE IF i - 1 >= maxColumns
         THEN acc
         ELSE choiceLoop(vals, i + 1, fieldFilter,
                         PushState(acc, colValue,
                                   NewState("choice", colValue, colValue)))

choiceStates(f, o) ==
    LET blank == IF ~isStateRequired(f, o)
                 THEN PushState(NoStates, "",
                          NewState("choice", optionalLabel, optionalLabel))
                 ELSE NoStates
    IN choiceLoop(f.values, 1, o.fieldFilter, blank)

\* rows.some(...) over the rows of the lookup list
RECURSIVE lookupLoop(_, _, _)
lookupLoop(rows, i, acc) ==
    IF i > Len(rows) THEN acc
    ELSE IF i - 1 >= maxColumns THEN acc
    ELSE LET thisName == rows[i].ID \o ";#" \o rows[i].title IN
         lookupLoop(rows, i + 1,
                    PushState(acc, thisName,
                              NewState("lookup", rows[i].title, thisName)))

lookupStates(f, o) ==
    LET blank == IF ~isStateRequired(f, o)
                 THEN PushState(NoStates, "",
                          NewState("lookup", optionalLabel, ""))
                 ELSE NoStates
    IN lookupLoop(f.rows, 1, blank)

---------------------------------------------------------------------------
(* Column visibility *)

VisibleCount(sts) == Cardinality({ i \in 1..Len(sts) : sts[i].isVisible })

VisibleSet(sts) == { i \in 1..Len(sts) : sts[i].isVisible }

\* "Build the board columns": every column visible, except those past the
\* first maxColumnVisible
buildColumns(sts) ==
    [i \in 1..Len(sts) |->
        [type      |-> sts[i].type,
         title     |-> sts[i].title,
         name      |-> sts[i].name,
         isVisible |-> ~(i - 1 > maxColumnVisible - 1)]]

\* isValidColumn(colName) of opt.setUserDefinedVisibleCol: some state has
\* this title or this name
isValidColumn(sts, colName) ==
    \E i \in 1..Len(sts) : sts[i].title = colName \/ sts[i].name = colName

\* opt.setBoardColumnClass(colCount): the new opt.showNumberOfColumns
setBoardColumnClass(sts, colCount) ==
    IF colCount < 2 THEN VisibleCount(sts) ELSE colCount

\* The show/hide loop of opt.setUserDefinedVisibleCol over opt.states
RECURSIVE visibleLoop(_, _, _, _)
visibleLoop(sts, i, colList, count) ==
    IF i > Len(sts) THEN [states |-> sts, count |-> count]
    ELSE LET hit  == InArray(sts[i].title, colList)
                        \/ InArray(sts[i].name, colList)
             sts2 == [sts EXCEPT ![i].isVisible = hit]
             c2   == IF hit THEN count + 1 ELSE count
         IN IF c2 >= maxColumnVisible
            THEN [states |-> sts2, count |-> c2]
            ELSE visibleLoop(sts2, i + 1, colList, c2)

\* An argument of setVisible: an array of strings, a string, or undefined
ArrayArg(arr)  == [kind |-> "array", arr |-> arr, str |-> ""]
StringArg(s)   == [kind |-> "string", arr |-> <<>>, str |-> s]
UndefinedArg   == [kind |-> "undefined", arr |-> <<>>, str |-> ""]

\* opt.setUserDefinedVisibleCol(colList): whether the show/hide loop runs
\* (the early returns), and its result
setVisibleRuns(colList) ==
    /\ ~(colList.kind = "undefined" \/ (colList.kind = "string" /\ colList.str = ""))
    /\ LET effective == IF colList.kind = "array" /\ Len(colList.arr) > 0
                        THEN colList.arr ELSE <<>>
       IN /\ ~(colList.kind # "array" /\ toLowerCase(colList.str) # "all")
          /\ ~(Len(effective) < 2)

setUserDefinedVisibleCol(sts, colList) ==
    IF setVisibleRuns(colList)
    THEN visibleLoop(sts, 1, colList.arr, 0)
    ELSE [states |-> sts, count |-> 0]

\* Picker.setVisibleColumns($selected): exactly the selected columns
pickerSetVisibleColumns(sts, selected) ==
    [i \in 1..Len(sts) |-> [sts[i] EXCEPT !.isVisible = (i \in selected)]]

\* The payload of spwidget:boardColumnChange: the titles of the visible
\* states, enumerating opt.statesMap
columnChangePayload(sts, sMap) ==
    LET keys == SelectSeq(MapEnumKeys(sMap),
                          LAMBDA k : sts[MapGet(sMap, k)].isVisible)
    IN [i \in 1..Len(keys) |-> sts[MapGet(sMap, keys[i])].title]

---------------------------------------------------------------------------
(* Rows, rendered items, and the DOM of the board                          *)
(*                                                                         *)
(* A row is [ID, st]: its identifier and the value of the board field.     *)
(* The DOM is one sequence of item elements per column (the children of    *)
(* states[c].dataEle); an item element is [id, row]: its data-id and the   *)
(* row its content was rendered from.                                      *)

\* no object: null, undefined or {} where a row is expected
NoRow == [ID |-> 0, st |-> "(no row)"]

\* no value where the state of a column is expected (undefined)
NoData == [isNum |-> FALSE, s |-> "(undefined)"]

EmptyDom(sts) == [c \in 1..Len(sts) |-> <<>>]

\* the item elements in document order
AllItems(dom) == Flatten(dom)

ItemIds(dom) == { it.id : it \in Range(AllItems(dom)) }

\* opt.statesCntr.find("div[data-id='" + id + "']").length > 0
HasItem(dom, id) == id \in ItemIds(dom)

\* the column holding the first element, in document order, with this id
FirstColumnOf(dom, id) ==
    CHOOSE c \in 1..Len(dom) :
        /\ \E k \in 1..Len(dom[c]) : dom[c][k].id = id
        /\ \A c2 \in 1..(c - 1) : \A k \in 1..Len(dom[c2]) : dom[c2][k].id # id

\* the columns under which an id is rendered
ColumnsOf(dom, id) ==
    { c \in 1..Len(dom) : \E k \in 1..Len(dom[c]) : dom[c][k].id = id }

\* Variant of appendTo in which the matched elements are copied to the
\* target column and stay where they were; C33 does not hold of it.
appendToCopies(dom, id, target) ==
    LET matched == SelectSeq(AllItems(dom), LAMBDA it : it.id = id)
    IN [c \in 1..Len(dom) |->
           IF c = target THEN dom[c] \o matched ELSE dom[c]]

\* boardItemCntr.appendTo(target): the matched elements leave their columns
\* and go, in document order, to the end of the target column
appendTo(dom, id, target) ==
    LET matched == SelectSeq(AllItems(dom), LAMBDA it : it.id = id)
    IN [c \in 1..Len(dom) |->
           LET rest == SelectSeq(dom[c], LAMBDA it : it.id # id)
           IN IF c = target THEN rest \o matched ELSE rest]

\* createNewItem(row, $uiEle): the matched elements show the row
refreshContent(dom, id, row) ==
    [c \in 1..Len(dom) |->
        [k \in 1..Len(dom[c]) |->
            IF dom[c][k].id = id THEN [id |-> id, row |-> row] ELSE dom[c][k]]]

\* opt.getBoardItemDataObject(itemId) over opt.listItems
getBoardItemDataObject(items, itemId) ==
    IF itemId = 0 \/ ~\E x \in 1..Len(items) : items[x].ID = itemId
    THEN NoRow
    ELSE items[CHOOSE x \in 1..Len(items) :
                   /\ items[x].ID = itemId
                   /\ \A w \in 1..(x - 1) : items[w].ID # itemId]

\* Variant of updBoardHeaders whose loop stops one column short; C26 does
\* not hold of it.
updBoardHeadersStopsShort(dom) ==
    [c \in 1..Len(dom) |-> IF c = Len(dom) THEN 0 ELSE Len(dom[c])]

\* opt.updBoardHeaders(): the text of each states[c].headerTotalEle
updBoardHeaders(dom) == [c \in 1..Len(dom) |-> Len(dom[c])]

\* opt.getEventObject(uiItemEle), for the item element itemId under column
\* col (0, 0 when the board has no item)
getEventObject(sts, items, headers, itemId, col) ==
    [stateTotals   |-> headers,
     itemTotal     |-> SumSeq(headers),
     currentState  |-> IF col = 0 THEN NoData ELSE jqData(sts[col].name),
     itemObj       |-> getBoardItemDataObject(items, itemId),
     itemsModified |-> <<>>]

\* opt.getEventObject(): for the first item element of the board
getEventObjectFirst(sts, items, headers, dom) ==
    IF AllItems(dom) = <<>>
    THEN getEventObject(sts, items, headers, 0, 0)
    ELSE LET id == AllItems(dom)[1].id
         IN getEventObject(sts, items, headers, id, FirstColumnOf(dom, id))

Event(type, evData) == [type |-> type, data |-> evData]

---------------------------------------------------------------------------
(* opt.showItemsOnBoard: one reconciliation pass *)

\* the start of the loop over the rows
PassStart(dom) ==
    [dom           |-> dom,
     newItems      |-> <<>>,
     chgItems      |-> <<>>,
     itemsForBoard |-> [c \in 1..Len(dom) |-> <<>>],
     temp          |-> {}]

\* Variant of passNewItem that puts every new item under the first column;
\* C20 does not hold of it.
passNewItemFirstColumn(acc, row, col, initDone) ==
    [acc EXCEPT
        !.newItems = IF initDone THEN Append(@, row) ELSE @,
        !.itemsForBoard[1] = Append(@, [id |-> row.ID, row |-> row])]

\* a row that is not on the board: createNewItem(row) adds its markup to
\* itemsForBoard, and the row counts as new once initialization is done
passNewItem(acc, row, col, initDone) ==
    [acc EXCEPT
        !.newItems = IF initDone THEN Append(@, row) ELSE @,
        !.itemsForBoard[col] = Append(@, [id |-> row.ID, row |-> row])]

\* Variant of passFoundItem in which an item that changes column is taken
\* out of its column and never put under the new one; C24 does not hold of
\* it.
passFoundItemDetaches(acc, row, col, sts) ==
    LET under == jqData(sts[FirstColumnOf(acc.dom, row.ID)].name)
        moved == StrictNotEqual(under, row.st)
        dom2  == IF moved
                 THEN [c \in 1..Len(acc.dom) |->
                          SelectSeq(acc.dom[c], LAMBDA it : it.id # row.ID)]
                 ELSE acc.dom
    IN [acc EXCEPT
        !.temp     = @ \cup {row.ID},
        !.chgItems = IF moved THEN Append(@, row) ELSE @,
        !.dom      = refreshContent(dom2, row.ID, row)]

\* Variant of passFoundItem in which an item whose row names another column
\* is counted as changed and stays under the column it sits under; C34 does
\* not hold of it.
passFoundItemStays(acc, row, col, sts) ==
    LET under == jqData(sts[FirstColumnOf(acc.dom, row.ID)].name)
        moved == StrictNotEqual(under, row.st)
    IN [acc EXCEPT
        !.temp     = @ \cup {row.ID},
        !.chgItems = IF moved THEN Append(@, row) ELSE @,
        !.dom      = refreshContent(acc.dom, row.ID, row)]

\* a row found on the board: marked spwidget-temp, moved when the state of
\* the column it sits under differs from the row's, and re-rendered
passFoundItem(acc, row, col, sts) ==
    LET under == jqData(sts[FirstColumnOf(acc.dom, row.ID)].name)
        moved == StrictNotEqual(under, row.st)
        dom2  == IF moved THEN appendTo(acc.dom, row.ID, col) ELSE acc.dom
    IN [acc EXCEPT
        !.temp     = @ \cup {row.ID},
        !.chgItems = IF moved THEN Append(@, row) ELSE @,
        !.dom      = refreshContent(dom2, row.ID, row)]

\* Variant of passRow in which a row whose state is no key of statesMap is
\* rendered under the first column instead of being skipped; C7 does not
\* hold of it.
passRowKeepsUnknown(acc, row, sts, sMap, refresh, initDone) ==
    IF ~MapHas(sMap, row.st)
    THEN (IF HasItem(acc.dom, row.ID) \/ Len(sts) = 0 THEN acc
          ELSE passNewItem(acc, row, 1, initDone))
    ELSE LET col == MapGet(sMap, row.st) IN
         IF ~refresh THEN passNewItem(acc, row, col, initDone)
         ELSE IF ~HasItem(acc.dom, row.ID)
         THEN passNewItem(acc, row, col, initDone)
         ELSE passFoundItem(acc, row, col, sts)

\* Variant of passRow in which a row whose state is no key of statesMap
\* keeps the item it is rendered as on the board; C36 does not hold of it.
passRowMarksUnknown(acc, row, sts, sMap, refresh, initDone) ==
    IF ~MapHas(sMap, row.st)
    THEN [acc EXCEPT !.temp = IF HasItem(acc.dom, row.ID)
                              THEN @ \cup {row.ID} ELSE @]
    ELSE LET col == MapGet(sMap, row.st) IN
         IF ~refresh THEN passNewItem(acc, row, col, initDone)
         ELSE IF ~HasItem(acc.dom, row.ID)
         THEN passNewItem(acc, row, col, initDone)
         ELSE passFoundItem(acc, row, col, sts)

\* the body of the loop for one row
passRow(acc, row, sts, sMap, refresh, initDone) ==
    IF ~MapHas(sMap, row.st) THEN acc
    ELSE LET col == MapGet(sMap, row.st) IN
         IF ~refresh THEN passNewItem(acc, row, col, initDone)
         ELSE IF ~HasItem(acc.dom, row.ID)
         THEN passNewItem(acc, row, col, initDone)
         ELSE passFoundItem(acc, row, col, sts)

RECURSIVE passLoop(_, _, _, _, _, _, _)
passLoop(acc, rows, x, sts, sMap, refresh, initDone) ==
    IF x > Len(rows) THEN acc
    ELSE passLoop(passRow(acc, rows[x], sts, sMap, refresh, initDone),
                  rows, x + 1, sts, sMap, refresh, initDone)

\* the item elements that are no longer valid: on the board before the
\* pass and not marked spwidget-temp (only on a refresh after init)
passStale(acc, refresh, initDone) ==
    IF initDone /\ refresh
    THEN SelectSeq(AllItems(acc.dom), LAMBDA it : it.id \notin acc.temp)
    ELSE <<>>

\* Variant of passDom in which no element is ever removed from the board;
\* C6 does not hold of it.
passDomKeepsStale(acc, refresh, initDone) ==
    [c \in 1..Len(acc.dom) |-> acc.dom[c] \o acc.itemsForBoard[c]]

\* the DOM after the new markup is inserted and the stale elements removed
passDom(acc, refresh, initDone) ==
    [c \in 1..Len(acc.dom) |->
        (IF initDone /\ refresh
         THEN SelectSeq(acc.dom[c], LAMBDA it : it.id \in acc.temp)
         ELSE acc.dom[c]) \o acc.itemsForBoard[c]]

\* Variant of passEvents in which spwidget:boardchange is triggered by every
\* pass after initialization, whatever the three sets hold; C4 does not hold
\* of it.
passEventsUngated(newItems, delItems, chgItems, evData, initDone) ==
    IF ~initDone THEN <<>>
    ELSE << Event("spwidget:boardchange",
                  [evData EXCEPT !.itemsModified =
                                     newItems \o delItems \o chgItems]) >>

\* Variant of passEvents in which spwidget:boardchange is triggered only for
\* items added or removed, never for items moved alone; C35 does not hold
\* of it.
passEventsSkipsMoves(newItems, delItems, chgItems, evData, initDone) ==
    IF ~initDone THEN <<>>
    ELSE (IF Len(newItems) > 0
          THEN << Event("spwidget:boarditemadd",
                        [evData EXCEPT !.itemsModified = << newItems >>]) >>
          ELSE <<>>)
      \o (IF Len(delItems) > 0
          THEN << Event("spwidget:boarditemremove",
                        [evData EXCEPT !.itemsModified = << delItems >>]) >>
          ELSE <<>>)
      \o (IF Len(newItems \o delItems) > 0
          THEN << Event("spwidget:boardchange",
                        [evData EXCEPT !.itemsModified =
                                           newItems \o delItems \o chgItems]) >>
          ELSE <<>>)

\* the events of the pass, in the order they are triggered; evData is
\* built from the headers as they are before opt.updBoardHeaders()
passEvents(newItems, delItems, chgItems, evData, initDone) ==
    IF ~initDone THEN <<>>
    ELSE (IF Len(newItems) > 0
          THEN << Event("spwidget:boarditemadd",
                        [evData EXCEPT !.itemsModified = << newItems >>]) >>
          ELSE <<>>)
      \o (IF Len(delItems) > 0
          THEN << Event("spwidget:boarditemremove",
                        [evData EXCEPT !.itemsModified = << delItems >>]) >>
          ELSE <<>>)
      \o (IF Len(newItems \o delItems \o chgItems) > 0
          THEN << Event("spwidget:boardchange",
                        [evData EXCEPT !.itemsModified =
                                           newItems \o delItems \o chgItems]) >>
          ELSE <<>>)

\* opt.showItemsOnBoard({refresh: refresh}) on the rows in opt.listItems:
\* the DOM, the headers, the classification and the events
showItemsOnBoard(dom, headers, rows, sts, sMap, refresh, initDone) ==
    LET dom0     == IF refresh THEN dom ELSE EmptyDom(sts)
        headers0 == IF refresh THEN headers ELSE [c \in 1..Len(sts) |-> 0]
        acc      == passLoop(PassStart(dom0), rows, 1, sts, sMap, refresh, initDone)
        stale    == passStale(acc, refresh, initDone)
        delItems == [k \in 1..Len(stale) |-> getBoardItemDataObject(rows, stale[k].id)]
        dom1     == passDom(acc, refresh, initDone)
        evData   == getEventObjectFirst(sts, rows, headers0, dom1)
    IN [dom      |-> dom1,
        headers  |-> updBoardHeaders(dom1),
        newItems |-> acc.newItems,
        chgItems |-> acc.chgItems,
        delIds   |-> [k \in 1..Len(stale) |-> stale[k].id],
        delItems |-> delItems,
        events   |-> passEvents(acc.newItems, delItems, acc.chgItems, evData, initDone)]

---------------------------------------------------------------------------
(* The state of the widget and of its environment *)

VARIABLES
    list,                \* the remote list: the field's definition, the rows it may hold
    options,             \* the options the widget was called with
    eleClass,            \* loadingSPShowBoard / hasSPShowBoard on the element
    pc,                  \* how far the initialization has come
    states,              \* opt.states
    statesMap,           \* opt.statesMap
    showNumberOfColumns, \* opt.showNumberOfColumns
    initDone,            \* opt.initDone
    listItems,           \* opt.listItems
    dataEle,             \* the item elements under each column
    headerTotalEle,      \* the total shown in each column header
    fetches,             \* refresh fetches in flight, oldest first: for each,
                         \* whether a fetch requested after it has resolved
    drags,               \* remote updates in flight, one per drag gesture
    last                 \* what the last handler did: its input, its events

vars == << list, options, eleClass, pc, states, statesMap, showNumberOfColumns,
           initDone, listItems, dataEle, headerTotalEle, fetches, drags, last >>

hasBoard  == "hasSPShowBoard" \in eleClass
isLoading == "loadingSPShowBoard" \in eleClass

\* the name of the board field (opt.field)
fieldName == "Status"

Did(op, events, info) == [op |-> op, events |-> events, info |-> info]

---------------------------------------------------------------------------
(* The environment's inputs *)

ChoiceField(required, values, rowValues) ==
    [found |-> TRUE, Type |-> "Choice", Required |-> required,
     values |-> values, rows |-> <<>>, rowValues |-> rowValues]

LookupField(required, rows, rowValues) ==
    [found |-> TRUE, Type |-> "Lookup", Required |-> required,
     values |-> <<>>, rows |-> rows, rowValues |-> rowValues]

OtherField(found, type) ==
    [found |-> found, Type |-> type, Required |-> "FALSE",
     values |-> <<>>, rows |-> <<>>, rowValues |-> {}]

Options(allowFieldBlanks, fieldFilter, colPickerVisible, showColPicker, onPreUpdate) ==
    [allowFieldBlanks |-> allowFieldBlanks, fieldFilter |-> fieldFilter,
     colPickerVisible |-> colPickerVisible, showColPicker |-> showColPicker,
     onPreUpdate |-> onPreUpdate]

DefaultOptions == Options("null", <<>>, <<>>, FALSE, FALSE)

\* the values of a choice field with n choices
ValueNames == << "c01", "c02", "c03", "c04", "c05", "c06", "c07", "c08",
                 "c09", "c10", "c11", "c12", "c13", "c14", "c15", "c16",
                 "c17", "c18", "c19", "c20", "c21", "c22", "c23", "c24" >>
ChoiceValues(n) == [i \in 1..n |-> ValueNames[i]]

\* the record sets a fetch may deliver: the rows of a list have pairwise
\* distinct IDs
Rows == [ID : 1..MaxId, st : list.rowValues]
RowSets ==
    { rs \in SeqsUpTo(Rows, MaxRows) :
        \A x \in 1..Len(rs), w \in 1..Len(rs) : x # w => rs[x].ID # rs[w].ID }

\* the columns whose identifiers callers name in free-form arrays
PoolCols(sts) == { i \in 1..Len(sts) : i <= 2 \/ i = Len(sts) }

IdentPool(sts) ==
    {"bogus"} \cup { sts[i].name : i \in PoolCols(sts) }
              \cup { sts[i].title : i \in PoolCols(sts) }

\* the runs of columns i..j that callers name or highlight as a whole: those
\* from one of the first two columns to one of the last three, and those at
\* the end of the board
ColumnRuns(sts) ==
    { << i, j >> \in (1..Len(sts)) \X (1..Len(sts)) :
        /\ i <= j
        /\ \/ i <= 2 /\ j >= Len(sts) - 2
           \/ i >= Len(sts) - 2 /\ j = Len(sts) }

\* the names of the columns of a run, in column order or reversed
RangeLists(sts) ==
    UNION { { [k \in 1..(r[2] - r[1] + 1) |-> sts[r[1] + k - 1].name],
              [k \in 1..(r[2] - r[1] + 1) |-> sts[r[2] - k + 1].name] } :
            r \in ColumnRuns(sts) }

ColLists(sts) ==
    SeqsUpTo(IdentPool(sts), MaxColList)
        \cup { a \in RangeLists(sts) : Len(a) > MaxColList }

SetVisibleArgs(sts) ==
    {UndefinedArg} \cup { StringArg(s) : s \in {"", "all", "ALL", "other"} }
                   \cup { ArrayArg(a) : a \in ColLists(sts) }

\* the sets of columns highlighted in the column picker when Apply is clicked
PickerSelections(sts) ==
    { {} } \cup { r[1]..r[2] : r \in ColumnRuns(sts) }
           \cup { {i, j} : i \in PoolCols(sts), j \in PoolCols(sts) }

---------------------------------------------------------------------------
(* Initialization of the widget *)

InitWith(setups) ==
    /\ \E setup \in setups : list = setup[1] /\ options = setup[2]
    /\ eleClass = {}
    /\ pc = "none"
    /\ states = <<>>
    /\ statesMap = EmptyMap
    /\ showNumberOfColumns = 10
    /\ initDone = FALSE
    /\ listItems = <<>>
    /\ dataEle = <<>>
    /\ headerTotalEle = <<>>
    /\ fetches = <<>>
    /\ drags = <<>>
    /\ last = Did("new", <<>>, [ignored |-> FALSE])

\* Variant of columnChangeEvents that triggers the event whether or not the
\* initialization is done; C18 does not hold of it.
columnChangeEventsAlways(sts, sMap, done) ==
    << Event("spwidget:boardColumnChange",
             [columns |-> columnChangePayload(sts, sMap)]) >>

\* the spwidget:boardColumnChange event of opt.triggerBoardColumnChangeEvent
columnChangeEvents(sts, sMap, done) ==
    IF done
    THEN << Event("spwidget:boardColumnChange",
                  [columns |-> columnChangePayload(sts, sMap)]) >>
    ELSE <<>>

\* what the colPickerVisible option of the input triggers while the board is
\* built: opt.setUserDefinedVisibleCol(opt.colPickerVisible)
buildEvents(resolved) ==
    LET arg == ArrayArg(options.colPickerVisible)
        vis == setUserDefinedVisibleCol(buildColumns(resolved.states), arg)
    IN IF Len(options.colPickerVisible) > 0 /\ setVisibleRuns(arg)
       THEN columnChangeEvents(vis.states, resolved.statesMap, initDone)
       ELSE <<>>

\* Variant of ShowBoard in which a call on an element whose initialization
\* failed starts the initialization again; C16 does not hold of it.
ShowBoardRetries ==
    /\ IF hasBoard \/ (isLoading /\ pc # "failed")
       THEN UNCHANGED << eleClass, pc >>
       ELSE /\ eleClass' = {"loadingSPShowBoard"}
            /\ pc' = "columns"
    /\ last' = Did("showBoard", <<>>, [ignored |-> hasBoard \/ isLoading])
    /\ UNCHANGED << list, options, states, statesMap, showNumberOfColumns,
                    initDone, listItems, dataEle, headerTotalEle, fetches, drags >>

\* $(ele).SPShowBoard(options): ignored on an element that has a board or is
\* loading one; else the element is marked loading and the list definition
\* is requested
ShowBoard ==
    /\ IF hasBoard \/ isLoading
       THEN UNCHANGED << eleClass, pc >>
       ELSE /\ eleClass' = {"loadingSPShowBoard"}
            /\ pc' = "columns"
    /\ last' = Did("showBoard", <<>>, [ignored |-> hasBoard \/ isLoading])
    /\ UNCHANGED << list, options, states, statesMap, showNumberOfColumns,
                    initDone, listItems, dataEle, headerTotalEle, fetches, drags >>

\* the .then() of opt.getBoardStates(): the columns are built, the options'
\* colPickerVisible is applied and the rows are requested
BuildBoard(resolved) ==
    LET built   == buildColumns(resolved.states)
        shown   == IF Len(built) <= maxColumnVisible THEN Len(built) ELSE 10
        userVis == Len(options.colPickerVisible) > 0
        arg     == ArrayArg(options.colPickerVisible)
        vis     == setUserDefinedVisibleCol(built, arg)
    IN /\ states' = IF userVis THEN vis.states ELSE built
       /\ statesMap' = resolved.statesMap
       /\ showNumberOfColumns' =
              IF userVis /\ setVisibleRuns(arg)
              THEN setBoardColumnClass(vis.states, vis.count)
              ELSE shown
       /\ dataEle' = EmptyDom(built)
       /\ headerTotalEle' = [c \in 1..Len(built) |-> 0]
       /\ pc' = "built"

\* rejectDeferred(jqXHR, msg) of getBoardStates, for the answer of
\* getListColumns: what the promise is rejected with
rejectDeferred(ok) ==
    IF ~ok
    THEN << "Field not found in list definition!", "jqXHR", "error" >>
    ELSE IF ~list.found
    THEN << "Field not found in list definition!", "null", "error" >>
    ELSE << "Field Type (" \o list.Type \o ") is not supported!", "null", "error" >>

\* getListColumns answers (or fails): a choice field resolves at once, a
\* lookup field queries its list, anything else rejects
ListColumnsDone(ok) ==
    /\ pc = "columns"
    /\ IF ok /\ list.found /\ toLowerCase(list.Type) = "choice"
       THEN /\ BuildBoard(choiceStates(list, options))
            /\ last' = Did("getBoardStates", buildEvents(choiceStates(list, options)),
                           [resolved |-> TRUE])
       ELSE IF ok /\ list.found /\ toLowerCase(list.Type) = "lookup"
       THEN /\ pc' = "lookup"
            /\ last' = Did("getListColumns", <<>>, [resolved |-> TRUE])
            /\ UNCHANGED << states, statesMap, showNumberOfColumns, dataEle,
                            headerTotalEle >>
       ELSE /\ pc' = "failed"
            /\ last' = Did("getBoardStates", <<>>,
                           [resolved |-> FALSE, args |-> rejectDeferred(ok)])
            /\ UNCHANGED << states, statesMap, showNumberOfColumns, dataEle,
                            headerTotalEle >>
    /\ UNCHANGED << list, options, eleClass, initDone, listItems, fetches, drags >>

\* the query of the lookup list answers (or fails)
LookupRowsDone(ok) ==
    /\ pc = "lookup"
    /\ IF ok
       THEN /\ BuildBoard(lookupStates(list, options))
            /\ last' = Did("getBoardStates", buildEvents(lookupStates(list, options)),
                           [resolved |-> TRUE])
       ELSE /\ pc' = "failed"
            /\ last' = Did("getBoardStates", <<>>,
                           [resolved |-> FALSE,
                            args |-> << "Unable to get rows from Lookup column list",
                                        "jqXHR", "error" >>])
            /\ UNCHANGED << states, statesMap, showNumberOfColumns, dataEle,
                            headerTotalEle >>
    /\ UNCHANGED << list, options, eleClass, initDone, listItems, fetches, drags >>

\* Variant of FirstItemsDone that sets opt.initDone before the first render
\* instead of after it; C17 does not hold of it.
FirstItemsDoneInitFirst(rows) ==
    /\ pc = "built"
    /\ LET pass == showItemsOnBoard(dataEle, headerTotalEle, rows, states,
                                    statesMap, FALSE, TRUE)
           evData == getEventObjectFirst(states, rows, pass.headers, pass.dom)
       IN /\ listItems' = rows
          /\ dataEle' = pass.dom
          /\ headerTotalEle' = pass.headers
          /\ last' = Did("showItemsOnBoard",
                         pass.events \o << Event("spwidget:boardcreate", evData) >>,
                         [refresh |-> FALSE, overtaken |-> FALSE,
                          newItems |-> pass.newItems, chgItems |-> pass.chgItems,
                          delIds |-> pass.delIds, delItems |-> pass.delItems])
    /\ initDone' = TRUE
    /\ eleClass' = {"hasSPShowBoard"}
    /\ pc' = "ready"
    /\ UNCHANGED << list, options, states, statesMap, showNumberOfColumns,
                    fetches, drags >>

\* the first opt._getListItems() resolves: the full render, then the board
\* is ready and the create event is triggered
FirstItemsDone(rows) ==
    /\ pc = "built"
    /\ LET pass == showItemsOnBoard(dataEle, headerTotalEle, rows, states,
                                    statesMap, FALSE, initDone)
           evData == getEventObjectFirst(states, rows, pass.headers, pass.dom)
       IN /\ listItems' = rows
          /\ dataEle' = pass.dom
          /\ headerTotalEle' = pass.headers
          /\ last' = Did("showItemsOnBoard",
                         pass.events \o << Event("spwidget:boardcreate", evData) >>,
                         [refresh |-> FALSE, overtaken |-> FALSE,
                          newItems |-> pass.newItems, chgItems |-> pass.chgItems,
                          delIds |-> pass.delIds, delItems |-> pass.delItems])
    /\ initDone' = TRUE
    /\ eleClass' = {"hasSPShowBoard"}
    /\ pc' = "ready"
    /\ UNCHANGED << list, options, states, statesMap, showNumberOfColumns,
                    fetches, drags >>

\* the first opt._getListItems() fails: nothing listens, the element stays
\* marked loading
FirstItemsFail ==
    /\ pc = "built"
    /\ pc' = "stuck"
    /\ last' = Did("getListItems", <<>>, [resolved |-> FALSE])
    /\ UNCHANGED << list, options, eleClass, states, statesMap, showNumberOfColumns,
                    initDone, listItems, dataEle, headerTotalEle, fetches, drags >>

---------------------------------------------------------------------------
(* The public methods and the column picker *)

\* A method name handed to an element that has no board and is loading
\* none is not taken as a method: the call falls through to the
\* initialization with the name as its options, which finds no list and no
\* field and replaces the content of the element by its error message.
pcAfterMethod == IF ~hasBoard /\ ~isLoading THEN "error" ELSE pc

\* Variant of RefreshUpTo in which a new refresh abandons the fetches in
\* flight; C12 does not hold of it.
RefreshAborting(n) ==
    /\ Len(fetches) < n
    /\ fetches' = IF hasBoard /\ ~isLoading THEN << FALSE >> ELSE fetches
    /\ last' = Did("refresh", <<>>, [ignored |-> ~(hasBoard /\ ~isLoading)])
    /\ pc' = pcAfterMethod
    /\ UNCHANGED << list, options, eleClass, states, statesMap,
                    showNumberOfColumns, initDone, listItems, dataEle,
                    headerTotalEle, drags >>

\* .SPShowBoard("refresh"), with fewer than n fetches in flight: a new fetch
\* is issued whatever is in flight; on an element that is loading a board
\* the call is dropped
RefreshUpTo(n) ==
    /\ Len(fetches) < n
    /\ fetches' = IF hasBoard /\ ~isLoading THEN Append(fetches, FALSE) ELSE fetches
    /\ last' = Did("refresh", <<>>, [ignored |-> ~(hasBoard /\ ~isLoading)])
    /\ pc' = pcAfterMethod
    /\ UNCHANGED << list, options, eleClass, states, statesMap,
                    showNumberOfColumns, initDone, listItems, dataEle,
                    headerTotalEle, drags >>

Refresh == RefreshUpTo(MaxFetch)

\* the fetches left in flight when the i-th is answered; those requested
\* before it are overtaken when it resolved
fetchesAfter(i, resolved) ==
    [k \in 1..(Len(fetches) - 1) |->
        IF k < i THEN fetches[k] \/ resolved ELSE fetches[k + 1]]

\* the i-th refresh fetch in flight resolves: opt.listItems is replaced and
\* the rows are reconciled with the board
RefreshDone(i, rows) ==
    /\ i \in 1..Len(fetches)
    /\ fetches' = fetchesAfter(i, TRUE)
    /\ LET pass == showItemsOnBoard(dataEle, headerTotalEle, rows, states,
                                    statesMap, TRUE, initDone)
       IN /\ listItems' = rows
          /\ dataEle' = pass.dom
          /\ headerTotalEle' = pass.headers
          /\ last' = Did("showItemsOnBoard", pass.events,
                         [refresh |-> TRUE, overtaken |-> fetches[i],
                          newItems |-> pass.newItems, chgItems |-> pass.chgItems,
                          delIds |-> pass.delIds, delItems |-> pass.delItems])
    /\ UNCHANGED << list, options, eleClass, pc, states, statesMap,
                    showNumberOfColumns, initDone, drags >>

\* Variant of RefreshFail in which the fetch that failed is requested anew;
\* C38 does not hold of it.
RefreshFailRetries(i) ==
    /\ i \in 1..Len(fetches)
    /\ fetches' = Append(fetchesAfter(i, FALSE), FALSE)
    /\ last' = Did("getListItems", <<>>, [resolved |-> FALSE])
    /\ UNCHANGED << list, options, eleClass, pc, states, statesMap,
                    showNumberOfColumns, initDone, listItems, dataEle,
                    headerTotalEle, drags >>

\* the i-th refresh fetch in flight fails: the promise of _getListItems is
\* rejected and nothing listens
RefreshFail(i) ==
    /\ i \in 1..Len(fetches)
    /\ fetches' = fetchesAfter(i, FALSE)
    /\ last' = Did("getListItems", <<>>, [resolved |-> FALSE])
    /\ UNCHANGED << list, options, eleClass, pc, states, statesMap,
                    showNumberOfColumns, initDone, listItems, dataEle,
                    headerTotalEle, drags >>

\* .SPShowBoard("setVisible", colList)
SetVisible(colList) ==
    LET ready == hasBoard /\ ~isLoading
        runs  == ready /\ setVisibleRuns(colList)
        vis   == setUserDefinedVisibleCol(states, colList)
    IN /\ states' = IF runs THEN vis.states ELSE states
       /\ showNumberOfColumns' =
              IF runs THEN setBoardColumnClass(vis.states, vis.count)
              ELSE showNumberOfColumns
       /\ last' = Did("setVisible",
                      IF runs THEN columnChangeEvents(vis.states, statesMap, initDone)
                      ELSE <<>>,
                      [ignored |-> ~ready, colList |-> colList])
       /\ pc' = pcAfterMethod
       /\ UNCHANGED << list, options, eleClass, statesMap, initDone,
                       listItems, dataEle, headerTotalEle, fetches, drags >>

\* a click on the Apply button of the column picker, with these columns
\* highlighted
PickerApply(selected) ==
    /\ options.showColPicker
    /\ pc \in {"built", "stuck", "ready"}
    /\ LET colNum  == Cardinality(selected)
           applies == ~(colNum > maxColumnVisible) /\ ~(colNum < 2)
           sts2    == pickerSetVisibleColumns(states, selected)
       IN /\ states' = IF applies THEN sts2 ELSE states
          /\ showNumberOfColumns' =
                 IF applies THEN setBoardColumnClass(sts2, colNum)
                 ELSE showNumberOfColumns
          /\ last' = Did("pickerApply",
                         IF applies THEN columnChangeEvents(sts2, statesMap, initDone)
                         ELSE <<>>,
                         [selected |-> selected])
    /\ UNCHANGED << list, options, eleClass, pc, statesMap, initDone,
                    listItems, dataEle, headerTotalEle, fetches, drags >>

---------------------------------------------------------------------------
(* getColumns *)

\* An object of the page is known by where it was made: the state objects of
\* opt.states ("state", column i) and the object literals made by the n-th
\* call of getBoardColumnList that the caller still holds ("copy", call n,
\* entry i), or made by the caller ("caller").
StateObject(i)   == [kind |-> "state", call |-> 0, of |-> i]
CopyObject(n, i) == [kind |-> "copy", call |-> n, of |-> i]
CallerObject     == [kind |-> "caller", call |-> 0, of |-> 0]

\* Variant of getBoardColumnList that hands out the state objects of the
\* widget in the array; C19 does not hold of it.
getBoardColumnListInternal(sts, n) ==
    [i \in 1..Len(sts) |->
        [obj |-> StateObject(i), name |-> sts[i].name, title |-> sts[i].title,
         isVisible |-> sts[i].isVisible]]

\* opt.getBoardColumnList(): a new array of new objects, one per state
getBoardColumnList(sts, n) ==
    [i \in 1..Len(sts) |->
        [obj |-> CopyObject(n, i), name |-> sts[i].name, title |-> sts[i].title,
         isVisible |-> sts[i].isVisible]]

\* the caller still holds the array of the last getColumns call
holdsColumns == last.op \in {"getColumns", "editColumns"} /\ ~last.info.ignored

\* .SPShowBoard("getColumns")
GetColumns ==
    LET ready == hasBoard /\ ~isLoading
        n     == IF holdsColumns THEN last.info.call + 1 ELSE 1
    IN /\ hasBoard \/ isLoading
       /\ n <= MaxGet
       /\ last' = Did("getColumns", <<>>,
                      [ignored |-> ~ready, call |-> n,
                       returned |-> IF ready THEN getBoardColumnList(states, n)
                                    ELSE <<>>])
       /\ UNCHANGED << list, options, eleClass, pc, states, statesMap,
                       showNumberOfColumns, initDone, listItems, dataEle,
                       headerTotalEle, fetches, drags >>

\* what the caller does to the array it was returned: it assigns a property
\* of the entry k, pushes an entry of its own, or pops the last entry
ColumnEdits(returned) ==
    { [kind |-> "isVisible", k |-> k] : k \in 1..Len(returned) }
        \cup { [kind |-> "title", k |-> k] : k \in 1..Len(returned) }
        \cup { [kind |-> "push", k |-> 0] : x \in { y \in {1} : Len(returned) <= Len(states) } }
        \cup { [kind |-> "pop", k |-> 0] : x \in { y \in {1} : Len(returned) >= Len(states)
                                                              /\ Len(returned) > 0 } }

editedColumns(returned, edit) ==
    IF edit.kind = "isVisible"
    THEN [returned EXCEPT ![edit.k].isVisible = ~@]
    ELSE IF edit.kind = "title"
    THEN [returned EXCEPT ![edit.k].title = "edited"]
    ELSE IF edit.kind = "push"
    THEN Append(returned, [obj |-> CallerObject, name |-> "edited",
                           title |-> "edited", isVisible |-> TRUE])
    ELSE SubSeq(returned, 1, Len(returned) - 1)

\* an assignment to a property of an object changes the state of the widget
\* when the object is one of opt.states
statesAfterEdit(sts, returned, edit) ==
    IF edit.kind \in {"isVisible", "title"} /\ returned[edit.k].obj.kind = "state"
    THEN LET i == returned[edit.k].obj.of
         IN IF edit.kind = "isVisible"
            THEN [sts EXCEPT ![i].isVisible = ~@]
            ELSE [sts EXCEPT ![i].title = "edited"]
    ELSE sts

\* the caller changes the array that getColumns returned
EditColumns(edit) ==
    /\ holdsColumns
    /\ edit \in ColumnEdits(last.info.returned)
    /\ states' = statesAfterEdit(states, last.info.returned, edit)
    /\ last' = Did("editColumns", <<>>,
                   [ignored |-> FALSE, call |-> last.info.call,
                    returned |-> editedColumns(last.info.returned, edit)])
    /\ UNCHANGED << list, options, eleClass, pc, statesMap,
                    showNumberOfColumns, initDone, listItems, dataEle,
                    headerTotalEle, fetches, drags >>

---------------------------------------------------------------------------
(* Drag and drop *)

\* what the onPreUpdate callback may return, and what it may do to the
\* updates array it is handed
HookReturns == {"true", "undefined", "truthy"}
HookEdits   == {"keep", "append", "clear"}

hookEdit(updates, edit) ==
    CASE edit = "append" -> Append(updates, << "Title", "edited" >>)
      [] edit = "clear"  -> <<>>
      [] OTHER           -> updates

\* the sortable moves the item element to position q of the column it is
\* dropped in
moveItem(dom, c, k, d, q) ==
    [x \in 1..Len(dom) |->
        IF x = c THEN SubSeq(dom[c], 1, k - 1) \o SubSeq(dom[c], k + 1, Len(dom[c]))
        ELSE IF x = d THEN SubSeq(dom[d], 1, q - 1) \o << dom[c][k] >>
                               \o SubSeq(dom[d], q, Len(dom[d]))
        ELSE dom[x]]

\* Variant of dropCommits in which every truthy return value of the
\* callback cancels the update; C8 does not hold of it.
dropCommitsUnlessTruthy(hasHook, ret, updates) ==
    /\ ~(hasHook /\ ret \in {"true", "truthy"})
    /\ ~(Len(updates) = 0)

\* Variant of dropCommits in which what the callback returns is not looked
\* at, so that the update of a drop it cancelled is sent and answered; C37
\* does not hold of it.
dropCommitsUnlessEmpty(hasHook, ret, updates) ==
    ~(Len(updates) = 0)

\* whether the sortreceive handler goes on to updateListItems
dropCommits(hasHook, ret, updates) ==
    /\ ~(hasHook /\ ret = "true")
    /\ ~(Len(updates) = 0)

\* Variant of updateRequest that sends only the first pair of the updates
\* array; C9 does not hold of it.
updateRequestFirstPair(evData, updates, itemId, col) ==
    [ID         |-> evData.itemObj.ID,
     valuepairs |-> SubSeq(updates, 1, 1),
     itemObj    |-> evData.itemObj,
     evData     |-> evData,
     item       |-> itemId,
     to         |-> col]

\* the request of the sortreceive handler to updateListItems
updateRequest(evData, updates, itemId, col) ==
    [ID         |-> evData.itemObj.ID,
     valuepairs |-> updates,
     itemObj    |-> evData.itemObj,
     evData     |-> evData,
     item       |-> itemId,
     to         |-> col]

\* the item element k of column c is dropped at position q of column d:
\* the sortremove/sortreceive handlers
DropUpTo(n, c, k, d, q, ret, edit) ==
    /\ pc = "ready"
    /\ Len(drags) < n
    /\ c # d
    /\ states[c].isVisible /\ states[d].isVisible
    /\ options.onPreUpdate \/ (ret = "undefined" /\ edit = "keep")
    /\ LET dom2    == moveItem(dataEle, c, k, d, q)
           itemId  == dataEle[c][k].id
           headers == updBoardHeaders(dom2)
           evData  == getEventObject(states, listItems, headers, itemId, d)
           updates == hookEdit(<< << fieldName, evData.currentState.s >> >>, edit)
           commits == dropCommits(options.onPreUpdate, ret, updates)
           request == updateRequest(evData, updates, itemId, d)
       IN /\ dataEle' = dom2
          /\ headerTotalEle' = headers
          /\ drags' = IF commits THEN Append(drags, request) ELSE drags
          /\ last' = Did("drop", <<>>,
                         [item |-> itemId, from |-> c, to |-> d, ret |-> ret,
                          edit |-> edit, updates |-> updates,
                          requests |-> IF commits THEN << request >> ELSE <<>>])
    /\ UNCHANGED << list, options, eleClass, pc, states, statesMap,
                    showNumberOfColumns, initDone, listItems, fetches >>

Drop(c, k, d, q, ret, edit) == DropUpTo(MaxDrag, c, k, d, q, ret, edit)

\* what updateListItems may answer
Outcomes == {"error", "msgError", "success"}

\* the response of the server to an update request
response(req, outcome) ==
    [status   |-> IF outcome = "error" THEN "error" ELSE "success",
     hasError |-> outcome = "msgError",
     row      |-> IF outcome = "success"
                  THEN [ID |-> req.ID, st |-> req.valuepairs[1][2]]
                  ELSE NoRow]

\* Variant of completefunc that resolves the promise with the original row
\* first and the updated row second; C10 does not hold of it.
completefuncSwapped(req, xData) ==
    IF xData.status = "error"
    THEN [settled |-> "rejected",
          args    |-> << "Communications Error!", xData, xData.status >>,
          events  |-> <<>>]
    ELSE IF xData.hasError
    THEN [settled |-> "rejected",
          args    |-> << "getMsgError(resp)", xData, xData.status >>,
          events  |-> <<>>]
    ELSE [settled |-> "resolved",
          args    |-> << req.itemObj, xData.row, xData >>,
          events  |-> << Event("spwidget:boardchange", req.evData) >>]

\* Variant of completefunc that does not look for an error reported in the
\* response; C11 does not hold of it.
completefuncTrustsResponse(req, xData) ==
    IF xData.status = "error"
    THEN [settled |-> "rejected",
          args    |-> << "Communications Error!", xData, xData.status >>,
          events  |-> <<>>]
    ELSE [settled |-> "resolved",
          args    |-> << xData.row, req.itemObj, xData >>,
          events  |-> << Event("spwidget:boardchange", req.evData) >>]

\* completefunc of updateListItems: how the update promise is settled and
\* the events triggered
completefunc(req, xData) ==
    IF xData.status = "error"
    THEN [settled |-> "rejected",
          args    |-> << "Communications Error!", xData, xData.status >>,
          events  |-> <<>>]
    ELSE IF xData.hasError
    THEN [settled |-> "rejected",
          args    |-> << "getMsgError(resp)", xData, xData.status >>,
          events  |-> <<>>]
    ELSE [settled |-> "resolved",
          args    |-> << xData.row, req.itemObj, xData >>,
          events  |-> << Event("spwidget:boardchange", req.evData) >>]

\* Variant of UpdateDone in which the gesture stays in flight after its
\* update has completed, so that it can complete again; C22 does not hold
\* of it.
UpdateDoneStaysInFlight(i, outcome) ==
    /\ i \in 1..Len(drags)
    /\ LET req  == drags[i]
           done == completefunc(req, response(req, outcome))
       IN last' = Did("updateListItems", done.events,
                      [request |-> req, outcome |-> outcome,
                       promise |-> done.settled, args |-> done.args])
    /\ drags' = drags
    /\ UNCHANGED << list, options, eleClass, pc, states, statesMap,
                    showNumberOfColumns, initDone, listItems, dataEle,
                    headerTotalEle, fetches >>

\* Variant of UpdateDone in which the answer to the i-th update settles the
\* promise of the oldest gesture in flight; C23 does not hold of it.
UpdateDoneSettlesOldest(i, outcome) ==
    /\ i \in 1..Len(drags)
    /\ LET req  == drags[1]
           done == completefunc(req, response(drags[i], outcome))
       IN last' = Did("updateListItems", done.events,
                      [request |-> req, outcome |-> outcome,
                       promise |-> done.settled, args |-> done.args])
    /\ drags' = SubSeq(drags, 1, i - 1) \o SubSeq(drags, i + 1, Len(drags))
    /\ UNCHANGED << list, options, eleClass, pc, states, statesMap,
                    showNumberOfColumns, initDone, listItems, dataEle,
                    headerTotalEle, fetches >>

\* the remote update of the i-th gesture in flight completes
UpdateDone(i, outcome) ==
    /\ i \in 1..Len(drags)
    /\ LET req  == drags[i]
           done == completefunc(req, response(req, outcome))
       IN last' = Did("updateListItems", done.events,
                      [request |-> req, outcome |-> outcome,
                       promise |-> done.settled, args |-> done.args])
    /\ drags' = SubSeq(drags, 1, i - 1) \o SubSeq(drags, i + 1, Len(drags))
    /\ UNCHANGED << list, options, eleClass, pc, states, statesMap,
                    showNumberOfColumns, initDone, listItems, dataEle,
                    headerTotalEle, fetches >>

---------------------------------------------------------------------------
(* The board with its items: initialization, refreshes, drops and their    *)
(* remote updates, on boards of two columns (a blank column and one value) *)
(* of a choice field and of a lookup field, and on fields that cannot be   *)
(* resolved.  No onPreUpdate callback is configured.                       *)

LookupRows == << [ID |-> "1", title |-> "A"], [ID |-> "2", title |-> "B"] >>

BoardSetups ==
    { << ChoiceField("FALSE", << "A" >>, {"", "A", "X"}), DefaultOptions >>,
      << LookupField("FALSE", SubSeq(LookupRows, 1, 1), {"", "1;#A", "X"}),
         DefaultOptions >>,
      << OtherField(FALSE, "Choice"), DefaultOptions >>,
      << OtherField(TRUE, "Text"), DefaultOptions >> }

Init == InitWith(BoardSetups)

Next ==
    \/ ShowBoard
    \/ \E ok \in BOOLEAN : ListColumnsDone(ok)
    \/ \E ok \in BOOLEAN : LookupRowsDone(ok)
    \/ \E rows \in RowSets : FirstItemsDone(rows)
    \/ FirstItemsFail
    \/ Refresh
    \/ \E i \in 1..Len(fetches) : \E rows \in RowSets : RefreshDone(i, rows)
    \/ \E i \in 1..Len(fetches) : RefreshFail(i)
    \/ \E c \in 1..Len(dataEle), d \in 1..Len(dataEle) :
          \E k \in 1..Len(dataEle[c]), q \in 1..(Len(dataEle[d]) + 1) :
             \E ret \in HookReturns, edit \in HookEdits :
                Drop(c, k, d, q, ret, edit)
    \/ \E i \in 1..Len(drags), outcome \in Outcomes : UpdateDone(i, outcome)

Spec == Init /\ [][Next]_vars

---------------------------------------------------------------------------
(* Drag and drop with an onPreUpdate callback: initialization, drops and   *)
(* their remote updates on boards of three columns, with and without the   *)
(* callback, and no refresh                                                *)

DragSetups ==
    { << ChoiceField("FALSE", << "A", "B" >>, {"", "A", "B", "X"}),
         Options("null", <<>>, <<>>, FALSE, TRUE) >>,
      << LookupField("FALSE", LookupRows, {"", "1;#A", "2;#B", "X"}),
         DefaultOptions >> }

InitDrag == InitWith(DragSetups)

NextDrag ==
    \/ ShowBoard
    \/ \E ok \in BOOLEAN : ListColumnsDone(ok)
    \/ \E ok \in BOOLEAN : LookupRowsDone(ok)
    \/ \E rows \in RowSets : FirstItemsDone(rows)
    \/ FirstItemsFail
    \/ \E c \in 1..Len(dataEle), d \in 1..Len(dataEle) :
          \E k \in 1..Len(dataEle[c]), q \in 1..(Len(dataEle[d]) + 1) :
             \E ret \in HookReturns, edit \in HookEdits :
                Drop(c, k, d, q, ret, edit)
    \/ \E i \in 1..Len(drags), outcome \in Outcomes : UpdateDone(i, outcome)

SpecDrag == InitDrag /\ [][NextDrag]_vars

---------------------------------------------------------------------------
(* Gestures in flight together: initialization, drops and their remote     *)
(* updates on boards of two columns, up to MaxInFlight updates being in    *)
(* flight and answered in any order; every update eventually completes     *)

MoveSetups ==
    { << ChoiceField("FALSE", << "A" >>, {"", "A"}), DefaultOptions >>,
      << LookupField("FALSE", SubSeq(LookupRows, 1, 1), {"", "1;#A"}),
         DefaultOptions >> }

InitMoves == InitWith(MoveSetups)

NextMoves ==
    \/ ShowBoard
    \/ \E ok \in BOOLEAN : ListColumnsDone(ok)
    \/ \E ok \in BOOLEAN : LookupRowsDone(ok)
    \/ \E rows \in RowSets : FirstItemsDone(rows)
    \/ FirstItemsFail
    \/ \E c \in 1..Len(dataEle), d \in 1..Len(dataEle) :
          \E k \in 1..Len(dataEle[c]), q \in 1..(Len(dataEle[d]) + 1) :
             DropUpTo(MaxInFlight, c, k, d, q, "undefined", "keep")
    \/ \E i \in 1..Len(drags), outcome \in Outcomes : UpdateDone(i, outcome)

\* the remote call of the update that was issued first completes
OldestUpdateDone == \E outcome \in Outcomes : UpdateDone(1, outcome)

SpecMoves == InitMoves /\ [][NextMoves]_vars /\ WF_vars(OldestUpdateDone)

---------------------------------------------------------------------------
(* Overlapping refreshes: initialization and refreshes, a refresh being    *)
(* called again while a fetch is in flight and the fetches being answered  *)
(* in any order, on boards of three columns; no drag                       *)

RefreshSetups ==
    { << ChoiceField("FALSE", << "A", "B" >>, {"", "A", "B", "X"}),
         DefaultOptions >>,
      << LookupField("FALSE", LookupRows, {"", "1;#A", "2;#B", "X"}),
         DefaultOptions >> }

InitRefresh == InitWith(RefreshSetups)

NextRefresh ==
    \/ ShowBoard
    \/ \E ok \in BOOLEAN : ListColumnsDone(ok)
    \/ \E ok \in BOOLEAN : LookupRowsDone(ok)
    \/ \E rows \in RowSets : FirstItemsDone(rows)
    \/ FirstItemsFail
    \/ RefreshUpTo(MaxOverlap)
    \/ \E i \in 1..Len(fetches) : \E rows \in RowSets : RefreshDone(i, rows)
    \/ \E i \in 1..Len(fetches) : RefreshFail(i)

SpecRefresh == InitRefresh /\ [][NextRefresh]_vars

---------------------------------------------------------------------------
(* Resolution of the columns: the initialization alone, over choice and    *)
(* lookup fields of 0 to maxColumns + 2 values, required or not, with and  *)
(* without the allowFieldBlanks override and a fieldFilter, and over       *)
(* fields that cannot be resolved                                          *)

\* the rows of a lookup list of n rows (the query asks for maxColumns rows
\* at most)
LookupRowsOf(n) == [i \in 1..n |-> [ID |-> ValueNames[i], title |-> "T" \o ValueNames[i]]]

FieldFilters == { <<>>, << "c01", "c21" >>, << "c02", "c03", "c22" >> }

StateSetups ==
    { << ChoiceField(req, ChoiceValues(n), {}),
         Options(allow, filter, <<>>, FALSE, FALSE) >> :
        req \in {"TRUE", "FALSE"},
        n \in {0, 1, 3, maxColumns - 1, maxColumns, maxColumns + 2},
        allow \in {"true", "false", "null"},
        filter \in FieldFilters }
    \cup
    { << LookupField(req, LookupRowsOf(n), {}),
         Options(allow, <<>>, <<>>, FALSE, FALSE) >> :
        req \in {"TRUE", "FALSE"},
        n \in {0, 2, maxColumns},
        allow \in {"true", "false", "null"} }
    \cup
    { << ChoiceField("FALSE", << "Not Started", "In Progress", "Done" >>,
                     {"", "Done", "Waiting"}),
         DefaultOptions >>,
      << LookupField("FALSE", LookupRows, {"", "2;#B", "3;#C"}), DefaultOptions >>,
      << ChoiceField("FALSE", << optionalLabel, "A" >>, {}), DefaultOptions >>,
      << ChoiceField("TRUE", << optionalLabel, "A" >>, {}), DefaultOptions >>,
      << OtherField(FALSE, "Choice"), DefaultOptions >>,
      << OtherField(TRUE, "Text"), DefaultOptions >>,
      << OtherField(TRUE, "User"), Options("true", <<>>, <<>>, FALSE, FALSE) >> }

InitStates == InitWith(StateSetups)

NextStates ==
    \/ ShowBoard
    \/ \E ok \in BOOLEAN : ListColumnsDone(ok)
    \/ \E ok \in BOOLEAN : LookupRowsDone(ok)
    \/ \E rows \in RowSets : FirstItemsDone(rows)
    \/ FirstItemsFail

SpecStates == InitStates /\ [][NextStates]_vars

---------------------------------------------------------------------------
(* The events of one board: initialization, refreshes, setVisible and the  *)
(* column picker on a board of two columns                                 *)

EventSetups ==
    { << ChoiceField("FALSE", << "A" >>, {"", "A"}),
         Options("null", <<>>, << "A" >>, TRUE, FALSE) >>,
      << LookupField("FALSE", SubSeq(LookupRows, 1, 1), {"", "1;#A"}),
         DefaultOptions >> }

InitEvents == InitWith(EventSetups)

NextEvents ==
    \/ ShowBoard
    \/ \E ok \in BOOLEAN : ListColumnsDone(ok)
    \/ \E ok \in BOOLEAN : LookupRowsDone(ok)
    \/ \E rows \in RowSets : FirstItemsDone(rows)
    \/ FirstItemsFail
    \/ Refresh
    \/ \E i \in 1..Len(fetches) : \E rows \in RowSets : RefreshDone(i, rows)
    \/ \E i \in 1..Len(fetches) : RefreshFail(i)
    \/ \E colList \in SetVisibleArgs(states) : SetVisible(colList)
    \/ \E selected \in PickerSelections(states) : PickerApply(selected)

SpecEvents == InitEvents /\ [][NextEvents]_vars

---------------------------------------------------------------------------
(* getColumns: initialization, setVisible and getColumns on boards of three *)
(* columns, with a caller that changes what it is returned                  *)

ListSetups ==
    { << ChoiceField("FALSE", ChoiceValues(2), {}),
         Options("null", <<>>, << "c01", "c02" >>, FALSE, FALSE) >>,
      << LookupField("TRUE", LookupRows, {}), DefaultOptions >> }

ColumnEditKinds == [kind : {"isVisible", "title", "push", "pop"}, k : 0..4]

InitList == InitWith(ListSetups)

NextList ==
    \/ ShowBoard
    \/ \E ok \in BOOLEAN : ListColumnsDone(ok)
    \/ \E ok \in BOOLEAN : LookupRowsDone(ok)
    \/ \E rows \in RowSets : FirstItemsDone(rows)
    \/ FirstItemsFail
    \/ \E colList \in SetVisibleArgs(states) : SetVisible(colList)
    \/ GetColumns
    \/ \E edit \in ColumnEditKinds : EditColumns(edit)

SpecList == InitList /\ [][NextList]_vars

---------------------------------------------------------------------------
(* The columns of the board: initialization, setVisible and the column     *)
(* picker on boards of 0 to maxColumnVisible + 2 columns, without rows     *)

ColumnSetups ==
    { << ChoiceField("TRUE", ChoiceValues(maxColumnVisible + 2), {}),
         Options("null", <<>>, <<>>, TRUE, FALSE) >>,
      << ChoiceField("FALSE", ChoiceValues(2), {}),
         Options("null", <<>>, << "c01", "c02" >>, TRUE, FALSE) >>,
      << ChoiceField("TRUE", ChoiceValues(1), {}), DefaultOptions >>,
      << ChoiceField("TRUE", ChoiceValues(0), {}), DefaultOptions >>,
      << LookupField("TRUE", LookupRows, {}),
         Options("true", <<>>, << "bogus" >>, TRUE, FALSE) >> }

InitCols == InitWith(ColumnSetups)

NextCols ==
    \/ ShowBoard
    \/ \E ok \in BOOLEAN : ListColumnsDone(ok)
    \/ \E ok \in BOOLEAN : LookupRowsDone(ok)
    \/ \E rows \in RowSets : FirstItemsDone(rows)
    \/ FirstItemsFail
    \/ \E colList \in SetVisibleArgs(states) : SetVisible(colList)
    \/ \E selected \in PickerSelections(states) : PickerApply(selected)

SpecCols == InitCols /\ [][NextCols]_vars

---------------------------------------------------------------------------
(* Column visibility (SpecCols)                                            *)

\* how many identifiers of an array resolve to a column, by name or by title
ResolvedCount(sts, arr) ==
    Cardinality({ i \in 1..Len(arr) : isValidColumn(sts, arr[i]) })

\* C1: setVisible is all-or-nothing: when fewer than 2 identifiers of the
\* array it is given resolve to a column (by internal name or by title), no
\* column's isVisible flag changes and no column-change event is emitted.
\* The code counts the valid identifiers and then does not look at the count.
C1_AllOrNothing ==
    [][ (/\ last'.op = "setVisible"
         /\ last'.info.colList.kind = "array"
         /\ ResolvedCount(states, last'.info.colList.arr) < 2)
        => (/\ \A i \in 1..Len(states) :
                   states'[i].isVisible = states[i].isVisible
            /\ last'.events = <<>>) ]_vars

\* C2: after every call of setVisible the number of visible columns is what
\* it was before the call, or lies within 2..maxColumnVisible.
C2_VisibleCountBounds ==
    [][ last'.op = "setVisible"
        => \/ VisibleCount(states') = VisibleCount(states)
           \/ VisibleCount(states') \in 2..maxColumnVisible ]_vars

\* C3: once initialization has completed, the number of visible columns is
\* within 2..maxColumnVisible in every state.
C3_VisibleCountInRange ==
    initDone => VisibleCount(states) \in 2..maxColumnVisible

---------------------------------------------------------------------------
(* Reconciliation passes (Spec)                                            *)
(*                                                                         *)
(* In a step of a pass, dataEle is the board before the pass, dataEle' the *)
(* board after it, listItems' the fresh rows, and last' tells what the     *)
(* pass classified and triggered.                                          *)

EventTypes(evs) == { evs[i].type : i \in 1..Len(evs) }

\* the rows carried by the events of one type
ItemsModifiedBy(evs, type) ==
    UNION { Range(evs[i].data.itemsModified) :
                i \in { j \in 1..Len(evs) : evs[j].type = type } }

\* the field value of the row is the key of a column
Resolvable(row) == \E i \in 1..Len(statesMap.keys) : statesMap.keys[i] = row.st

\* the column a resolvable row belongs to
ResolvedColumn(row) ==
    statesMap.idx[CHOOSE i \in 1..Len(statesMap.keys) : statesMap.keys[i] = row.st]

\* the column an id is rendered under
ColumnUnder(dom, id) ==
    CHOOSE c \in 1..Len(dom) : \E k \in 1..Len(dom[c]) : dom[c][k].id = id

RowIds(rows) == { rows[x].ID : x \in 1..Len(rows) }

\* the fresh rows whose item sits, before the pass, under another column
\* than the one the row resolves to
ChangedColumn(dom, rows) ==
    { x \in 1..Len(rows) : ColumnUnder(dom, rows[x].ID) # ResolvedColumn(rows[x]) }

\* the fresh rows differ from the board in the column of one record only
OneRecordChangedColumn(dom, rows) ==
    /\ \A x \in 1..Len(rows) : Resolvable(rows[x])
    /\ RowIds(rows) = ItemIds(dom)
    /\ Cardinality(ChangedColumn(dom, rows)) = 1

\* C4: a pass emits item-added only if its added set is non-empty,
\* item-removed only if its removed set is non-empty, items-changed only if
\* one of added, removed, moved is non-empty; the first, full pass (before
\* initDone is set) emits none of the three; and a refresh that differs from
\* the board in the column of one record only emits items-changed carrying
\* that record, and neither item-added nor item-removed.
C4_EventGating ==
    [][ last'.op = "showItemsOnBoard" =>
        LET types == EventTypes(last'.events)
            info  == last'.info
            fresh == listItems'
        IN /\ "spwidget:boarditemadd" \in types => Len(info.newItems) > 0
           /\ "spwidget:boarditemremove" \in types => Len(info.delIds) > 0
           /\ "spwidget:boardchange" \in types =>
                  Len(info.newItems) + Len(info.delIds) + Len(info.chgItems) > 0
           /\ (~initDone \/ ~info.refresh) =>
                  types \cap {"spwidget:boarditemadd", "spwidget:boarditemremove",
                              "spwidget:boardchange"} = {}
           /\ (info.refresh /\ OneRecordChangedColumn(dataEle, fresh)) =>
                  /\ "spwidget:boardchange" \in types
                  /\ \A x \in ChangedColumn(dataEle, fresh) :
                         fresh[x] \in ItemsModifiedBy(last'.events,
                                                      "spwidget:boardchange")
                  /\ "spwidget:boarditemadd" \notin types
                  /\ "spwidget:boarditemremove" \notin types ]_vars

\* a refresh has moved one record to another column and emitted only
\* items-changed
C4_Witness ==
    /\ last.op = "showItemsOnBoard"
    /\ last.info.refresh
    /\ Len(last.info.chgItems) = 1
    /\ last.info.newItems = <<>> /\ last.info.delIds = <<>>
    /\ EventTypes(last.events) = {"spwidget:boardchange"}
    /\ Len(listItems) = 2

\* C5: in a refresh every fresh row whose column exists is classified one
\* way: added if and only if no rendered item has its id, moved if and only
\* if a rendered item has its id and sits under another column, else
\* unchanged; and after the pass its item, showing the fresh row, sits under
\* the column the row resolves to and under no other.
C5_Classification ==
    [][ (last'.op = "showItemsOnBoard" /\ last'.info.refresh) =>
        \A x \in 1..Len(listItems') :
            LET row == listItems'[x] IN
            Resolvable(row) =>
                LET col      == ResolvedColumn(row)
                    rendered == row.ID \in ItemIds(dataEle)
                    added    == InArray(row, last'.info.newItems)
                    moved    == InArray(row, last'.info.chgItems)
                IN /\ added <=> ~rendered
                   /\ moved <=> (rendered /\ ColumnUnder(dataEle, row.ID) # col)
                   /\ InArray([id |-> row.ID, row |-> row], dataEle'[col])
                   /\ ColumnsOf(dataEle', row.ID) = {col} ]_vars

\* C6: after a refresh every item that was rendered before it and whose id
\* is not in the fresh rows is off the board and counted in the pass's
\* removed set, and no item whose id is in the fresh rows with a column that
\* exists is taken off the board.  (Which objects the removed set then holds
\* for those items is the matter of C31.)
C6_RemovedDetached ==
    [][ (last'.op = "showItemsOnBoard" /\ last'.info.refresh) =>
        /\ \A id \in ItemIds(dataEle) \ RowIds(listItems') :
               /\ id \notin ItemIds(dataEle')
               /\ InArray(id, last'.info.delIds)
        /\ Len(last'.info.delItems) = Len(last'.info.delIds)
        /\ \A x \in 1..Len(listItems') :
               (Resolvable(listItems'[x]) /\ listItems'[x].ID \in ItemIds(dataEle))
               => /\ listItems'[x].ID \in ItemIds(dataEle')
                  /\ ~InArray(listItems'[x].ID, last'.info.delIds) ]_vars

\* a refresh has removed an item and kept another
C6_Witness ==
    /\ last.op = "showItemsOnBoard"
    /\ last.info.refresh
    /\ Len(last.info.delIds) > 0
    /\ \E x \in 1..Len(listItems) :
           /\ Resolvable(listItems[x])
           /\ ~InArray(listItems[x], last.info.newItems)

\* C7: in a full pass and in a refresh alike, a fresh row whose field value
\* is the key of no column is not rendered and is in neither the added nor
\* the moved set, and every other fresh row is rendered.
C7_SilentDrop ==
    [][ last'.op = "showItemsOnBoard" =>
        \A x \in 1..Len(listItems') :
            LET row == listItems'[x] IN
            IF Resolvable(row)
            THEN InArray([id |-> row.ID, row |-> row], AllItems(dataEle'))
            ELSE /\ row.ID \notin ItemIds(dataEle')
                 /\ ~InArray(row, last'.info.newItems)
                 /\ ~InArray(row, last'.info.chgItems) ]_vars

\* a pass has met a row of no column next to a row that it rendered
C7_Witness ==
    /\ last.op = "showItemsOnBoard"
    /\ \E x \in 1..Len(listItems) : ~Resolvable(listItems[x])
    /\ \E x \in 1..Len(listItems) :
           /\ Resolvable(listItems[x])
           /\ InArray([id |-> listItems[x].ID, row |-> listItems[x]],
                      AllItems(dataEle))

---------------------------------------------------------------------------
(* Drag and drop (SpecDrag)                                                *)
(*                                                                         *)
(* In a step of a drop, last'.info tells the item, the columns, what the   *)
(* callback returned and did to the updates array, and drags' holds the    *)
(* request issued, if any.                                                 *)

BoardChangeCount(evs) ==
    Cardinality({ i \in 1..Len(evs) : evs[i].type = "spwidget:boardchange" })

\* the drop was cancelled: the callback returned true, or the updates array
\* was empty after the callback
Cancelled(info) == info.ret = "true" \/ info.updates = <<>>

\* C8: a drop whose callback returns true, or whose updates array is empty
\* after the callback, issues no remote update and emits no items-changed
\* event, and the item stays under the column it was dropped into; a drop
\* whose callback returns anything else (undefined, another truthy value)
\* and leaves the array non-empty does issue the update.
C8_CancelledDrop ==
    [][ last'.op = "drop" =>
        LET info == last'.info IN
        /\ Cancelled(info) =>
               /\ drags' = drags
               /\ BoardChangeCount(last'.events) = 0
               /\ ColumnsOf(dataEle', info.item) = {info.to}
        /\ ~Cancelled(info) => Len(drags') = Len(drags) + 1 ]_vars

\* a callback returned true and the drop issued no request, the item being
\* under the column it was dropped into
C8_Witness ==
    /\ last.op = "drop"
    /\ last.info.ret = "true"
    /\ last.info.updates # <<>>
    /\ last.info.requests = <<>>
    /\ ColumnsOf(dataEle, last.info.item) = {last.info.to}

\* C9: a drop that is not cancelled issues exactly one remote update, for
\* the id of the dragged record, with the updates array as it stands after
\* the callback: the pair of the board field and the name of the column
\* dropped into, followed by what the callback appended.  (The name is the
\* one the column carries in opt.states; which name the blank column
\* carries is the matter of C30.)
C9_OneUpdate ==
    [][ (last'.op = "drop" /\ ~Cancelled(last'.info)) =>
        LET info == last'.info IN
        /\ Len(drags') = Len(drags) + 1
        /\ SubSeq(drags', 1, Len(drags)) = drags
        /\ drags'[Len(drags')].ID = info.item
        /\ drags'[Len(drags')].valuepairs = info.updates
        /\ info.updates =
               hookEdit(<< << fieldName, states[info.to].name >> >>, info.edit) ]_vars

\* a callback appended a pair and the drop issued its request
C9_Witness ==
    /\ last.op = "drop"
    /\ last.info.edit = "append"
    /\ Len(last.info.requests) = 1
    /\ Len(drags) = 1
    /\ Len(drags[1].valuepairs) = 2

\* C10: when the remote update of a drop succeeds, the promise of the
\* gesture is resolved with the row the server returned, the row the item
\* had in opt.listItems when it was dropped, and the raw response, and
\* exactly one spwidget:boardchange event is emitted for the gesture: none
\* by the drop, one by the completion, which ends the request.
C10_UpdateSuccess ==
    [][ /\ last'.op = "drop" => BoardChangeCount(last'.events) = 0
        /\ (last'.op = "updateListItems" /\ last'.info.outcome = "success") =>
               LET info  == last'.info
                   xData == response(info.request, "success")
               IN /\ info.promise = "resolved"
                  /\ Len(info.args) = 3
                  /\ info.args[1] = xData.row
                  /\ \E x \in 1..Len(listItems) :
                         /\ listItems[x].ID = info.request.item
                         /\ info.args[2] = listItems[x]
                  /\ info.args[3] = xData
                  /\ BoardChangeCount(last'.events) = 1
                  /\ Len(drags') = Len(drags) - 1 ]_vars

\* the update of a drop has succeeded and its promise is resolved
C10_Witness ==
    /\ last.op = "updateListItems"
    /\ last.info.outcome = "success"
    /\ last.info.promise = "resolved"
    /\ BoardChangeCount(last.events) = 1

\* the message an update that failed is rejected with
FailureMessage(outcome) ==
    IF outcome = "error" THEN "Communications Error!" ELSE "getMsgError(resp)"

\* C11: when the remote update of a drop fails, by a transport error or by
\* an error reported in the response, the promise of the gesture is rejected
\* with the message, the raw response and the status, no spwidget:boardchange
\* event is emitted, and the completion moves no item: the drop had put the
\* item under the column it was dropped into, and it is left there.
C11_UpdateFailure ==
    [][ /\ last'.op = "drop" =>
               ColumnsOf(dataEle', last'.info.item) = {last'.info.to}
        /\ (last'.op = "updateListItems" /\ last'.info.outcome # "success") =>
               LET info  == last'.info
                   xData == response(info.request, info.outcome)
               IN /\ info.promise = "rejected"
                  /\ info.args = << FailureMessage(info.outcome), xData, xData.status >>
                  /\ info.outcome = "error" => info.args[3] = "error"
                  /\ last'.events = <<>>
                  /\ dataEle' = dataEle
                  /\ Len(drags') = Len(drags) - 1 ]_vars

\* the update of a drop was answered with an error in the response, its
\* promise is rejected and the item is under the column it was dropped into
C11_Witness ==
    /\ last.op = "updateListItems"
    /\ last.info.outcome = "msgError"
    /\ last.info.promise = "rejected"
    /\ ColumnsOf(dataEle, last.info.request.item) = {last.info.request.to}

---------------------------------------------------------------------------
(* Overlapping refreshes (SpecRefresh)                                     *)

\* the items that column c holds when these rows are reconciled
ReconciledColumn(rows, c) ==
    { [id |-> rows[x].ID, row |-> rows[x]] :
        x \in { y \in 1..Len(rows) :
                    Resolvable(rows[y]) /\ ResolvedColumn(rows[y]) = c } }

\* C12: a refresh called while fetches are in flight leaves them in flight,
\* and every fetch that resolves, whether or not a fetch requested after it
\* has resolved before, runs one whole pass: after it the board holds
\* exactly the records of that fetch whose column exists, each once, under
\* its column, and the other fetches are still in flight.
C12_LastResolvedWins ==
    [][ /\ (last'.op = "refresh" /\ ~last'.info.ignored) =>
               fetches' = Append(fetches, FALSE)
        /\ (last'.op = "showItemsOnBoard" /\ last'.info.refresh) =>
               /\ \A c \in 1..Len(states) :
                      Range(dataEle'[c]) = ReconciledColumn(listItems', c)
               /\ Len(AllItems(dataEle')) =
                      Cardinality({ x \in 1..Len(listItems') :
                                        Resolvable(listItems'[x]) })
               /\ Len(fetches') = Len(fetches) - 1 ]_vars

\* a fetch has resolved after a fetch requested later than it, and its
\* records have replaced those of the later request on the board
C12_Witness ==
    /\ last.op = "showItemsOnBoard"
    /\ last.info.refresh
    /\ last.info.overtaken
    /\ fetches = <<>>
    /\ Len(last.info.delIds) > 0
    /\ Len(last.info.newItems) > 0

---------------------------------------------------------------------------
(* The limit of visible columns (SpecCols)                                 *)

\* the columns an array of identifiers names, by internal name or by title
NamedColumns(sts, arr) ==
    { i \in 1..Len(sts) :
        \E p \in 1..Len(arr) : sts[i].title = arr[p] \/ sts[i].name = arr[p] }

\* the first n columns an array names, in the order of the array
FirstNamed(sts, arr, n) ==
    { i \in 1..Len(sts) :
        \E p \in 1..Len(arr) :
            /\ sts[i].title = arr[p] \/ sts[i].name = arr[p]
            /\ Cardinality(NamedColumns(sts, SubSeq(arr, 1, p - 1)) \ {i}) < n }

\* C13: when the array given to setVisible names more than maxColumnVisible
\* columns, the columns visible after the call are exactly the first
\* maxColumnVisible of them in the order of the array; every other column
\* is hidden, whatever it was before.
C13_FirstInCallerOrder ==
    [][ (/\ last'.op = "setVisible"
         /\ ~last'.info.ignored
         /\ last'.info.colList.kind = "array"
         /\ Cardinality(NamedColumns(states, last'.info.colList.arr))
                > maxColumnVisible)
        => VisibleSet(states') =
               FirstNamed(states, last'.info.colList.arr, maxColumnVisible) ]_vars

---------------------------------------------------------------------------
(* C14 - C16, C20: the resolved columns and the first render               *)

\* the field accepts no blank: the boolean override decides where it is
\* set, else the Required flag of the field definition
FieldIsRequired ==
    \/ options.allowFieldBlanks = "false"
    \/ options.allowFieldBlanks = "null" /\ list.Required = "TRUE"

\* the columns the key "" resolves to
BlankColumns == { statesMap.idx[i] : i \in { j \in 1..Len(statesMap.keys) : statesMap.keys[j] = "" } }

Resolved == pc \in {"built", "ready", "stuck"}

\* C14: once the columns of a choice or lookup field are resolved, the
\* blank state (key "", labelled optionalLabel) is the first column exactly
\* when the field is not required, where required is the negation of a
\* boolean allowFieldBlanks and else the field's Required flag; there is
\* never more than one blank state.
C14_BlankState ==
    Resolved =>
        /\ Cardinality({ j \in 1..Len(statesMap.keys) : statesMap.keys[j] = "" }) <= 1
        /\ IF FieldIsRequired
           THEN BlankColumns = {}
           ELSE BlankColumns = {1} /\ states[1].title = optionalLabel
        /\ \A i \in 2..Len(states) :
              states[i].title = optionalLabel => optionalLabel \in Range(list.values)

\* a required lookup field whose override allows blanks, and an optional
\* choice field whose override forbids them, have been resolved
C14_Witness ==
    /\ Resolved
    /\ \/ /\ list.Type = "Lookup" /\ list.Required = "TRUE"
          /\ options.allowFieldBlanks = "true"
          /\ Len(states) = 3 /\ states[1].title = optionalLabel
       \/ /\ list.Type = "Choice" /\ list.Required = "FALSE"
          /\ options.allowFieldBlanks = "false"
          /\ Len(states) = 3 /\ states[1].title # optionalLabel

\* C15: the resolved list of states never has more than maxColumns entries,
\* blank state and fieldFilter included.
C15_AtMostMaxColumns == Resolved => Len(states) <= maxColumns

\* the field cannot be resolved to columns
Unresolvable == ~list.found \/ toLowerCase(list.Type) \notin {"choice", "lookup"}

\* C16: when the field is not in the list definition or its type is neither
\* choice nor lookup, the state promise is rejected with a message, the raw
\* response and "error", and the initialization ends there: no column is
\* built, no fetch of records is issued, initDone stays false, no create
\* event is triggered and a further call does not start it again.
C16_FatalResolution ==
    [][ Unresolvable =>
          /\ states' = <<>> /\ dataEle' = <<>> /\ listItems' = <<>>
          /\ ~initDone'
          /\ pc' \in {"columns", "failed"}
          /\ fetches' = <<>>
          /\ last'.events = <<>>
          /\ pc = "failed" => (pc' = "failed" /\ eleClass' = eleClass)
          /\ (pc = "columns" /\ pc' = "failed") =>
                /\ ~last'.info.resolved
                /\ Len(last'.info.args) = 3
                /\ last'.info.args[1] # ""
                /\ last'.info.args[2] \in {"null", "jqXHR"}
                /\ last'.info.args[3] = "error" ]_vars

\* a field of an unsupported type failed the initialization and a further
\* call on the element was ignored
C16_Witness ==
    /\ list.found /\ list.Type = "Text"
    /\ pc = "failed"
    /\ last.op = "showBoard" /\ last.info.ignored

\* the items of the rows, in the order fetched, that resolve to column c
RenderedUnder(rows, c) ==
    LET at == SelectSeq([x \in 1..Len(rows) |-> x],
                        LAMBDA x : Resolvable(rows[x]) /\ ResolvedColumn(rows[x]) = c)
    IN [k \in 1..Len(at) |-> [id |-> rows[at[k]].ID, row |-> rows[at[k]]]]

ExampleTitles == << "(none)", "Not Started", "In Progress", "Done" >>
ExampleRows == << [ID |-> 1, st |-> ""], [ID |-> 2, st |-> "Done"] >>

\* C20: the full pass of the first render leaves on the board exactly the
\* fetched records whose value resolves to a column, each under that
\* column, the blank value under the blank column; with the columns
\* (none), Not Started, In Progress, Done and the records 1 (blank) and
\* 2 (Done), item 1 is under (none) and item 2 under Done.
C20_FullMode ==
    [][ (last'.op = "showItemsOnBoard" /\ ~last'.info.refresh) =>
          /\ Len(dataEle') = Len(states)
          /\ \A c \in 1..Len(states) : dataEle'[c] = RenderedUnder(listItems', c)
          /\ \A x \in 1..Len(listItems') :
                (listItems'[x].st = "" /\ ~FieldIsRequired)
                    => ColumnsOf(dataEle', listItems'[x].ID) = {1}
          /\ ([i \in 1..Len(states) |-> states[i].title] = ExampleTitles
                /\ listItems' = ExampleRows)
             => dataEle' = << << [id |-> 1, row |-> ExampleRows[1]] >>, <<>>, <<>>,
                              << [id |-> 2, row |-> ExampleRows[2]] >> >> ]_vars

\* the example of C20 has been rendered
C20_Witness ==
    /\ last.op = "showItemsOnBoard" /\ ~last.info.refresh
    /\ [i \in 1..Len(states) |-> states[i].title] = ExampleTitles
    /\ listItems = ExampleRows
    /\ ColumnsOf(dataEle, 1) = {1} /\ ColumnsOf(dataEle, 2) = {4}

---------------------------------------------------------------------------
(* C17: the create event                                                   *)

CreateEvents(evs) == { i \in 1..Len(evs) : evs[i].type = "spwidget:boardcreate" }

\* C17: spwidget:boardcreate is triggered by one step only, the one in
\* which the first full render completes and initDone becomes true, and
\* once in that step, with no other event before it; initDone never
\* becomes false again, so there is no second create event; and every
\* item-added, item-removed, items-changed or columns-changed event is
\* emitted by a step that starts with initDone true, that is, after the
\* create event.
C17_CreateOnce ==
    [][ /\ CreateEvents(last'.events) # {} =>
              /\ ~initDone /\ initDone'
              /\ pc = "built" /\ pc' = "ready"
              /\ last'.op = "showItemsOnBoard" /\ ~last'.info.refresh
              /\ \A c \in 1..Len(states) :
                    Range(dataEle'[c]) = ReconciledColumn(listItems', c)
              /\ CreateEvents(last'.events) = {1}
              /\ Len(last'.events) = 1
        /\ (~initDone /\ initDone') => CreateEvents(last'.events) = {1}
        /\ initDone => initDone'
        /\ (last'.events # <<>> /\ CreateEvents(last'.events) = {}) => initDone ]_vars

\* the first render put items on the board and the only event of it is the
\* create event
C17_Witness ==
    /\ last.op = "showItemsOnBoard" /\ ~last.info.refresh
    /\ CreateEvents(last.events) = {1}
    /\ Len(AllItems(dataEle)) = MaxRows
    /\ initDone

---------------------------------------------------------------------------
(* C18: the column-change event                                            *)

ColumnChanges(evs) == { i \in 1..Len(evs) : evs[i].type = "spwidget:boardColumnChange" }

\* the titles of the visible columns, in column order
VisibleTitles(sts) ==
    LET at == SelectSeq([i \in 1..Len(sts) |-> i], LAMBDA i : sts[i].isVisible)
    IN [k \in 1..Len(at) |-> sts[at[k]].title]

---------------------------------------------------------------------------
(* C19: getColumns                                                         *)

ObjectsOf(returned) == { returned[i].obj : i \in 1..Len(returned) }

\* C19: getColumns on a board returns one new object per column, in column
\* order, with the name, the title and the current isVisible of the column:
\* none of the objects is a state object of the widget or an object of the
\* array the caller holds from an earlier call; and whatever the caller
\* does to the array and its entries, the columns of the widget and their
\* visibility stay as they are.
C19_FreshList ==
    [][ /\ (last'.op = "getColumns" /\ ~last'.info.ignored) =>
              LET returned == last'.info.returned
              IN /\ Len(returned) = Len(states)
                 /\ \A i \in 1..Len(states) :
                       /\ returned[i].name = states[i].name
                       /\ returned[i].title = states[i].title
                       /\ returned[i].isVisible = states[i].isVisible
                       /\ returned[i].obj.kind # "state"
                 /\ Cardinality(ObjectsOf(returned)) = Len(returned)
                 /\ (last.op \in {"getColumns", "editColumns"} /\ ~last.info.ignored)
                       => ObjectsOf(returned) \cap ObjectsOf(last.info.returned) = {}
                 /\ states' = states
        /\ last'.op = "editColumns" =>
              /\ states' = states
              /\ showNumberOfColumns' = showNumberOfColumns
              /\ statesMap' = statesMap ]_vars

\* the caller holds the array of a second call, has pushed an entry to it
\* and changed the visibility in an entry of it, and the board's columns
\* are as they were
C19_Witness ==
    /\ last.op = "editColumns"
    /\ last.info.call = 2
    /\ Len(states) = 3
    /\ Len(last.info.returned) = 4
    /\ \E i \in 1..3 : last.info.returned[i].isVisible # states[i].isVisible

---------------------------------------------------------------------------
(* C21: the keyword "all"                                                  *)

\* C21: setVisible("all") on a ready board is applied: after it the first
\* maxColumnVisible columns of the board, all of them on a smaller board,
\* are visible.
C21_AllKeyword ==
    [][ (last'.op = "setVisible" /\ ~last'.info.ignored
           /\ last'.info.colList.kind = "string"
           /\ toLowerCase(last'.info.colList.str) = "all")
        => \A i \in 1..Len(states') : i <= maxColumnVisible => states'[i].isVisible ]_vars

---------------------------------------------------------------------------
(* C22, C23: the gestures and their promises                               *)

\* the gestures in flight (remote update issued, promise pending) that move
\* the item id
InFlight(id) == { i \in 1..Len(drags) : drags[i].item = id }

\* each step settles the promise of one gesture at most: the one whose
\* update completed, which then leaves the gestures in flight for good
SettlesOnce ==
    [][ /\ last'.op = "updateListItems" =>
              /\ \E i \in 1..Len(drags) :
                    /\ drags[i] = last'.info.request
                    /\ drags' = SubSeq(drags, 1, i - 1) \o SubSeq(drags, i + 1, Len(drags))
              /\ last'.info.promise \in {"resolved", "rejected"}
              /\ last'.info.promise = "resolved" <=> last'.info.outcome = "success"
              /\ last'.info.promise = "rejected" <=> last'.info.outcome \in {"error", "msgError"}
        /\ last'.op = "drop" =>
              /\ Len(last'.info.requests) = 1 => drags' = Append(drags, last'.info.requests[1])
              /\ Len(last'.info.requests) = 0 => drags' = drags
        /\ last'.op \notin {"updateListItems", "drop"} => drags' = drags ]_vars

\* C22: a drop that gets past the callback issues one remote update and its
\* gesture is in flight; when the update completes the promise is resolved
\* (on success) or rejected (on failure), never both, and the gesture is no
\* longer in flight, so that it is never settled again; and every gesture
\* in flight is eventually settled, the remote calls completing.
C22_GestureSettles ==
    /\ SettlesOnce
    /\ \A id \in 1..MaxId :
          (InFlight(id) # {}) ~>
              (last.op = "updateListItems" /\ last.info.request.item = id
                   /\ last.info.promise \in {"resolved", "rejected"})

\* one of two gestures in flight has been settled by a rejection and the
\* other is still in flight
C22_Witness ==
    /\ last.op = "updateListItems"
    /\ last.info.promise = "rejected"
    /\ Len(drags) = 1
    /\ drags[1].item # last.info.request.item

\* the row of listItems with this id
RowOf(id) == listItems[CHOOSE x \in 1..Len(listItems) : listItems[x].ID = id]

\* C23: gestures in flight together do not touch each other.  A drop adds
\* its own request, for the id of the item dropped, with its own record and
\* its own updates, and leaves the requests in flight as they are; the
\* answer to a request, whichever of them it is, settles the promise of
\* that request after its own outcome, with its own record and item, and
\* leaves the other requests in flight as they are.
C23_IndependentGestures ==
    [][ /\ (last'.op = "drop" /\ Len(last'.info.requests) = 1) =>
              LET req == last'.info.requests[1]
              IN /\ drags' = Append(drags, req)
                 /\ req.item = last'.info.item
                 /\ req.ID = last'.info.item
                 /\ req.itemObj = RowOf(last'.info.item)
                 /\ req.valuepairs = last'.info.updates
                 /\ req.to = last'.info.to
        /\ last'.op = "updateListItems" =>
              LET req == last'.info.request
              IN /\ \E i \in 1..Len(drags) :
                       /\ drags[i] = req
                       /\ drags' = SubSeq(drags, 1, i - 1)
                                      \o SubSeq(drags, i + 1, Len(drags))
                 /\ last'.info.promise =
                        (IF last'.info.outcome = "success" THEN "resolved" ELSE "rejected")
                 /\ last'.info.outcome = "success" =>
                       /\ last'.info.args[1].ID = req.item
                       /\ last'.info.args[2] = RowOf(req.item)
                       /\ Len(last'.events) = 1
                       /\ last'.events[1].data.itemObj = RowOf(req.item)
                 /\ \A x \in 1..Len(drags') : drags'[x] \in Range(drags) ]_vars

\* two items were dropped one after the other, both updates were in flight,
\* and the update issued second has been answered first, with a success,
\* while the first is still in flight
C23_Witness ==
    /\ last.op = "updateListItems"
    /\ last.info.outcome = "success"
    /\ Len(drags) = 1
    /\ drags[1].item # last.info.request.item
    /\ drags[1].evData.stateTotals = << 1, 1 >>
    /\ last.info.request.evData.stateTotals = << 0, 2 >>

---------------------------------------------------------------------------
(* C24: conservation                                                       *)
(*                                                                         *)
(* The partitions of the fresh records are told by what the pass does to   *)
(* the board: a record is added when no item of its id is rendered before  *)
(* the pass and one is after it, moved when its item is under another      *)
(* column after the pass than before, unchanged when its item stays under  *)
(* its column, and dropped when its value resolves to no column.  A full   *)
(* pass starts by emptying the board.                                      *)

BoardBefore(dom, refresh) == IF refresh THEN dom ELSE EmptyDom(states)

Added(dom, dom2, rows) ==
    { x \in 1..Len(rows) : ~HasItem(dom, rows[x].ID) /\ HasItem(dom2, rows[x].ID) }

Moved(dom, dom2, rows) ==
    { x \in 1..Len(rows) : /\ HasItem(dom, rows[x].ID) /\ HasItem(dom2, rows[x].ID)
                           /\ ColumnsOf(dom, rows[x].ID) # ColumnsOf(dom2, rows[x].ID) }

Unchanged(dom, dom2, rows) ==
    { x \in 1..Len(rows) : /\ HasItem(dom, rows[x].ID) /\ HasItem(dom2, rows[x].ID)
                           /\ ColumnsOf(dom, rows[x].ID) = ColumnsOf(dom2, rows[x].ID) }

Dropped(rows) == { x \in 1..Len(rows) : ~Resolvable(rows[x]) }

\* C24 as stated: in every pass, added.length + unchanged.length is
\* freshRecords.length - droppedCount.
C24_Conservation ==
    [][ last'.op = "showItemsOnBoard" =>
          LET before == BoardBefore(dataEle, last'.info.refresh)
          IN Cardinality(Added(before, dataEle', listItems'))
                + Cardinality(Unchanged(before, dataEle', listItems'))
             = Len(listItems') - Cardinality(Dropped(listItems')) ]_vars

\* C24 with the moved records counted: in every pass, added.length +
\* moved.length + unchanged.length is freshRecords.length - droppedCount,
\* and no dropped record is rendered after the pass.
C24_ConservationWithMoved ==
    [][ last'.op = "showItemsOnBoard" =>
          LET before == BoardBefore(dataEle, last'.info.refresh)
          IN /\ Cardinality(Added(before, dataEle', listItems'))
                   + Cardinality(Moved(before, dataEle', listItems'))
                   + Cardinality(Unchanged(before, dataEle', listItems'))
                = Len(listItems') - Cardinality(Dropped(listItems'))
             /\ \A x \in Dropped(listItems') : ~HasItem(dataEle', listItems'[x].ID) ]_vars

\* a refresh has added one record and moved another to a new column
C24_Witness ==
    /\ last.op = "showItemsOnBoard" /\ last.info.refresh
    /\ Len(last.info.newItems) = 1
    /\ Len(last.info.chgItems) = 1
    /\ Len(listItems) = 2
    /\ \E c \in 1..Len(dataEle) : Len(dataEle[c]) = 2

---------------------------------------------------------------------------
(* C25: the order inside a column                                          *)

\* the position of the item id inside its column
PositionOf(dom, id) ==
    LET c == ColumnUnder(dom, id)
    IN CHOOSE k \in 1..Len(dom[c]) : dom[c][k].id = id

\* C25: any two records of one pass that the pass adds or moves to the
\* same column are, inside that column, in the order of the input array.
C25_InputOrder ==
    [][ last'.op = "showItemsOnBoard" =>
          LET before  == BoardBefore(dataEle, last'.info.refresh)
              rows    == listItems'
              arrived == Added(before, dataEle', rows) \cup Moved(before, dataEle', rows)
          IN \A x \in arrived, y \in arrived :
                (x < y /\ ColumnUnder(dataEle', rows[x].ID) = ColumnUnder(dataEle', rows[y].ID))
                    => PositionOf(dataEle', rows[x].ID) < PositionOf(dataEle', rows[y].ID) ]_vars

---------------------------------------------------------------------------
(* C26: the header totals                                                  *)

\* C26: whatever passes (full or incremental, with or without removals)
\* and drops have run, the total in the header of every column is the
\* number of items rendered under the column.
C26_HeaderTotals ==
    /\ Len(headerTotalEle) = Len(dataEle)
    /\ \A c \in 1..Len(dataEle) :
          headerTotalEle[c] = Cardinality({ k \in 1..Len(dataEle[c]) : TRUE })

\* a refresh has removed an item from the board and left another, or moved
\* one, under the last column
C26_Witness ==
    /\ last.op = "showItemsOnBoard" /\ last.info.refresh
    /\ Len(last.info.delIds) = 1
    /\ Len(dataEle) = 2
    /\ headerTotalEle = << 0, 1 >>

---------------------------------------------------------------------------
(* C27: the names of the columns                                           *)

\* C27: once the columns are resolved, no two of them have the same name,
\* and the name of the blank state is the empty string.
C27_UniqueNames ==
    Resolved =>
        /\ \A i \in 1..Len(states), j \in 1..Len(states) :
              i # j => states[i].name # states[j].name
        /\ \A i \in BlankColumns : states[i].name = ""

---------------------------------------------------------------------------
(* C28: the fieldFilter of a choice field                                  *)

\* the values of the field that occur in the filter, in the field's order
MatchingValues == SelectSeq(list.values, LAMBDA v : InArray(v, options.fieldFilter))

\* the names of the states that are not the blank state
ValueStateNames ==
    LET at == SelectSeq([i \in 1..Len(states) |-> i], LAMBDA i : i \notin BlankColumns)
    IN [k \in 1..Len(at) |-> states[at[k]].name]

\* C28: for a choice field with a fieldFilter, the states other than the
\* blank state are the values of the field that occur in the filter, in
\* the field's order: all of them when they are fewer than maxColumns,
\* wherever they sit among the values of the field.
C28_FilteredStates ==
    (Resolved /\ toLowerCase(list.Type) = "choice" /\ Len(options.fieldFilter) > 0) =>
        /\ \A k \in 1..Len(ValueStateNames) : InArray(ValueStateNames[k], options.fieldFilter)
        /\ Len(MatchingValues) < maxColumns => ValueStateNames = MatchingValues

---------------------------------------------------------------------------
(* C29: a record that is already under its column                          *)

\* C29: a refresh never classifies as moved a record whose item is, before
\* the pass, under the column its value resolves to; and a refresh that
\* fetches the records the pass before it fetched emits no event.
C29_NoMoveInPlace ==
    [][ (last'.op = "showItemsOnBoard" /\ last'.info.refresh) =>
          /\ \A k \in 1..Len(last'.info.chgItems) :
                LET row == last'.info.chgItems[k]
                IN ColumnsOf(dataEle, row.ID) # {ResolvedColumn(row)}
          /\ listItems' = listItems => last'.events = <<>> ]_vars

---------------------------------------------------------------------------
(* C30: a drop onto the blank column                                       *)

\* C30: when an item is dropped onto the blank column, the updates array
\* the gesture starts with (and sends, the callback leaving it as it is) is
\* the one pair of the board field and the empty string.
C30_BlankDrop ==
    [][ (last'.op = "drop" /\ last'.info.to \in BlankColumns /\ last'.info.edit = "keep") =>
          /\ last'.info.updates = << << fieldName, "" >> >>
          /\ \A k \in 1..Len(last'.info.requests) :
                last'.info.requests[k].valuepairs = << << fieldName, "" >> >> ]_vars

---------------------------------------------------------------------------
(* C31: the records of the removed items                                   *)

\* the record the item id is rendered from
RenderedRow(dom, id) == (CHOOSE it \in Range(AllItems(dom)) : it.id = id).row

EventsOfType(evs, type) == { i \in 1..Len(evs) : evs[i].type = type }

\* C31: the item-removed event of a pass carries, for the items the pass
\* detaches, the records they were rendered from, and the items-changed
\* event carries them too; no entry of either payload is null.
C31_RemovedRecords ==
    [][ (last'.op = "showItemsOnBoard" /\ last'.info.refresh) =>
          LET ids      == last'.info.delIds
              expected == [k \in 1..Len(ids) |-> RenderedRow(dataEle, ids[k])]
          IN /\ \A i \in EventsOfType(last'.events, "spwidget:boarditemremove") :
                   /\ last'.events[i].data.itemsModified = << expected >>
                   /\ \A k \in 1..Len(last'.events[i].data.itemsModified[1]) :
                         last'.events[i].data.itemsModified[1][k] # NoRow
             /\ \A i \in EventsOfType(last'.events, "spwidget:boardchange") :
                   /\ \A k \in 1..Len(expected) :
                         InArray(expected[k], last'.events[i].data.itemsModified)
                   /\ \A k \in 1..Len(last'.events[i].data.itemsModified) :
                         last'.events[i].data.itemsModified[k] # NoRow ]_vars

---------------------------------------------------------------------------
(* C32: the totals of the event objects                                    *)

\* C32: the event objects of the events a pass emits (item-added,
\* item-removed, items-changed, and the create event after the first pass)
\* carry, per column, the number of items rendered under the column after
\* the pass, and their sum.
C32_EventTotals ==
    [][ last'.op = "showItemsOnBoard" =>
          \A i \in 1..Len(last'.events) :
             /\ last'.events[i].data.stateTotals = [c \in 1..Len(dataEle') |-> Len(dataEle'[c])]
             /\ last'.events[i].data.itemTotal = Len(AllItems(dataEle')) ]_vars


---------------------------------------------------------------------------
(* C33: one rendered item per record                                       *)

\* the positions of the board at which an id is rendered
PositionsOf(dom, id) ==
    { << c, k >> \in (1..Len(dom)) \X (1..Len(AllItems(dom))) :
         k <= Len(dom[c]) /\ dom[c][k].id = id }

\* C33: after any sequence of the first render, refreshes and drops, every
\* record id is rendered at most once, and the item containers are exactly
\* the columns of the board, one per state.
C33_OneItemPerRecord ==
    /\ \A id \in ItemIds(dataEle) : Cardinality(PositionsOf(dataEle, id)) = 1
    /\ DOMAIN dataEle = 1..Len(states)

\* a refresh has just moved an item on a board that shows two items
C33_Witness ==
    /\ last.op = "showItemsOnBoard"
    /\ last.info.refresh
    /\ Len(last.info.chgItems) > 0
    /\ Cardinality(ItemIds(dataEle)) = 2


---------------------------------------------------------------------------
(* C34: a refresh that resolves after a drop, with rows read before it     *)

\* the fetched rows that name a column other than the one their item is
\* rendered under, each with the column it names
StaleFor(dom, rows, sMap) ==
    { << x, col >> \in (1..Len(rows)) \X (1..Len(dom)) :
         /\ HasItem(dom, rows[x].ID)
         /\ MapHas(sMap, rows[x].st)
         /\ MapGet(sMap, rows[x].st) = col
         /\ col \notin ColumnsOf(dom, rows[x].ID) }

\* C34: nothing orders a refresh and a drop.  A pass whose fetched row names
\* another column than the one the item sits under (the column it was
\* dropped into) puts the item back under the column of the fetched value,
\* counts the row as changed and emits the items-changed event with it; the
\* answer to the drop's update, when it comes, leaves the board and the
\* stored rows as the pass left them.
C34_StaleRefreshWins ==
    [][ /\ (last'.op = "showItemsOnBoard" /\ last'.info.refresh) =>
              \A p \in StaleFor(dataEle, listItems', statesMap) :
                 LET row == listItems'[p[1]]
                 IN /\ ColumnsOf(dataEle', row.ID) = {p[2]}
                    /\ InArray(row, last'.info.chgItems)
                    /\ \E i \in EventsOfType(last'.events, "spwidget:boardchange") :
                          InArray(row, last'.events[i].data.itemsModified)
        /\ last'.op = "updateListItems" =>
              /\ dataEle' = dataEle
              /\ listItems' = listItems
              /\ headerTotalEle' = headerTotalEle ]_vars

\* the update of a drop has been committed while the item is rendered under
\* another column than the one it was dropped into, the column of the value
\* a refresh fetched in between
C34_Witness ==
    /\ last.op = "updateListItems"
    /\ last.info.promise = "resolved"
    /\ HasItem(dataEle, last.info.request.item)
    /\ last.info.request.to \notin ColumnsOf(dataEle, last.info.request.item)
    /\ \E x \in 1..Len(listItems) :
          /\ listItems[x].ID = last.info.request.item
          /\ MapHas(statesMap, listItems[x].st)
          /\ ColumnsOf(dataEle, last.info.request.item) = {MapGet(statesMap, listItems[x].st)}


---------------------------------------------------------------------------
(* Drops that are cancelled or whose update fails, followed by refreshes:  *)
(* initialization, refreshes, drops and their remote updates on boards of  *)
(* two columns with an onPreUpdate callback                                *)

CancelSetups ==
    { << ChoiceField("FALSE", << "A" >>, {"", "A"}),
         Options("null", <<>>, <<>>, FALSE, TRUE) >>,
      << LookupField("FALSE", SubSeq(LookupRows, 1, 1), {"", "1;#A"}),
         Options("null", <<>>, <<>>, FALSE, TRUE) >> }

InitCancel == InitWith(CancelSetups)

NextCancel ==
    \/ ShowBoard
    \/ \E ok \in BOOLEAN : ListColumnsDone(ok)
    \/ \E ok \in BOOLEAN : LookupRowsDone(ok)
    \/ \E rows \in RowSets : FirstItemsDone(rows)
    \/ FirstItemsFail
    \/ Refresh
    \/ \E i \in 1..Len(fetches) : \E rows \in RowSets : RefreshDone(i, rows)
    \/ \E c \in 1..Len(dataEle), d \in 1..Len(dataEle) :
          \E k \in 1..Len(dataEle[c]), q \in 1..(Len(dataEle[d]) + 1) :
             \E ret \in HookReturns, edit \in HookEdits :
                Drop(c, k, d, q, ret, edit)
    \/ \E i \in 1..Len(drags), outcome \in Outcomes : UpdateDone(i, outcome)

SpecCancel == InitCancel /\ [][NextCancel]_vars

---------------------------------------------------------------------------
(* C35: a refresh undoes a drop that did not reach the list                *)

\* the last handler was a drop that sent no update
DropCancelled == last.op = "drop" /\ last.info.requests = <<>>

\* the last handler was the answer to an update that failed
UpdateFailed == last.op = "updateListItems" /\ last.info.promise = "rejected"

\* the item of the drop that did not reach the list
UndoneItem == IF last.op = "drop" THEN last.info.item ELSE last.info.request.item

\* the column that drop put the item under
UndoneTo == IF last.op = "drop" THEN last.info.to ELSE last.info.request.to

\* an item with no update in flight that is rendered under another column
\* than the one its stored row names: it was dropped there, and the drop was
\* cancelled, or its update has been answered
Displaced(id) ==
    /\ HasItem(dataEle, id)
    /\ InFlight(id) = {}
    /\ \E x \in 1..Len(listItems) :
          /\ listItems[x].ID = id
          /\ MapHas(statesMap, listItems[x].st)
          /\ MapGet(statesMap, listItems[x].st) \notin ColumnsOf(dataEle, id)

\* C35: a drop that the callback cancels, or that makes no update, leaves the
\* item under the column it was dropped into, and so does the failure of a
\* drop's update.  The next pass of a refresh whose fetched row for the item
\* still is the row the item had before the drop puts the item back under
\* the column of that row, counts the row as changed and emits the
\* items-changed event with it.
C35_RefreshUndoesDrop ==
    [][ /\ last'.op = "drop" =>
              ColumnsOf(dataEle', last'.info.item) = {last'.info.to}
        /\ (last'.op = "updateListItems" /\ last'.info.promise = "rejected") =>
              dataEle' = dataEle
        /\ (last'.op = "showItemsOnBoard" /\ last'.info.refresh) =>
              \A id \in 1..MaxId :
                 (Displaced(id) /\ InArray(RowOf(id), listItems')) =>
                    /\ ColumnsOf(dataEle', id) = {MapGet(statesMap, RowOf(id).st)}
                    /\ InArray(RowOf(id), last'.info.chgItems)
                    /\ \E i \in EventsOfType(last'.events, "spwidget:boardchange") :
                          InArray(RowOf(id), last'.events[i].data.itemsModified) ]_vars

\* a drop has been cancelled, or its update has failed, while the fetch of a
\* refresh is in flight: the item sits under the column it was dropped into
\* and its stored row names the column it came from
C35_Witness ==
    /\ DropCancelled \/ UpdateFailed
    /\ Displaced(UndoneItem)
    /\ ColumnsOf(dataEle, UndoneItem) = {UndoneTo}
    /\ fetches # <<>>


---------------------------------------------------------------------------
(* C36: an item whose fetched row names no column                          *)

\* the rendered ids whose fetched row names a state that is no column
Unplaced(dom, rows, sMap) ==
    { id \in ItemIds(dom) :
         \E x \in 1..Len(rows) : rows[x].ID = id /\ ~MapHas(sMap, rows[x].st) }

\* the rendered ids with no fetched row
Vanished(dom, rows) ==
    { id \in ItemIds(dom) : \A x \in 1..Len(rows) : rows[x].ID # id }

\* C36: a refresh takes an item whose fetched row names no column off the
\* board as it does an item that has no fetched row: both are detached,
\* both are among the items the pass removes, and the pass emits the
\* item-removed event and the items-changed event with one entry for each
\* of them; the entry of the item whose row names no column is that row.
C36_UnplacedRemoved ==
    [][ (last'.op = "showItemsOnBoard" /\ last'.info.refresh) =>
          LET gone == Unplaced(dataEle, listItems', statesMap)
                         \cup Vanished(dataEle, listItems')
              ids  == last'.info.delIds
          IN /\ Range(ids) = gone
             /\ Len(ids) = Cardinality(gone)
             /\ ItemIds(dataEle') \cap Unplaced(dataEle, listItems', statesMap) = {}
             /\ gone # {} =>
                   /\ \E i \in EventsOfType(last'.events, "spwidget:boarditemremove") :
                         /\ Len(last'.events[i].data.itemsModified[1]) = Len(ids)
                         /\ \A k \in 1..Len(ids) :
                               ids[k] \in Unplaced(dataEle, listItems', statesMap) =>
                                  /\ last'.events[i].data.itemsModified[1][k].ID = ids[k]
                                  /\ InArray(last'.events[i].data.itemsModified[1][k], listItems')
                   /\ \E i \in EventsOfType(last'.events, "spwidget:boardchange") :
                         \A k \in 1..Len(ids) :
                            ids[k] \in Unplaced(dataEle, listItems', statesMap) =>
                               InArray(getBoardItemDataObject(listItems', ids[k]),
                                       last'.events[i].data.itemsModified) ]_vars

\* a refresh has taken an item off the board whose fetched row names a state
\* that is no column
C36_Witness ==
    /\ last.op = "showItemsOnBoard"
    /\ last.info.refresh
    /\ \E k \in 1..Len(last.info.delIds) :
          /\ ~HasItem(dataEle, last.info.delIds[k])
          /\ \E x \in 1..Len(listItems) :
                /\ listItems[x].ID = last.info.delIds[k]
                /\ ~MapHas(statesMap, listItems[x].st)


---------------------------------------------------------------------------
(* C37: the promise of a cancelled drop                                    *)

\* C37: the promise of a gesture is settled by the answer to the gesture's
\* update and by nothing else.  A drop that is cancelled, by the callback
\* returning true or by an empty updates array, settles nothing and puts no
\* update in flight; the updates in flight are those of drops that were not
\* cancelled, each answer settles the promise of one update that was in
\* flight and takes it out of flight, and no other handler settles a
\* promise.  So the promise of a cancelled drop stays pending.
C37_CancelledStaysPending ==
    [][ /\ (last'.op = "drop" /\ Cancelled(last'.info)) =>
              /\ drags' = drags
              /\ last'.info.requests = <<>>
              /\ last'.events = <<>>
        /\ Len(drags') > Len(drags) =>
              /\ last'.op = "drop"
              /\ ~Cancelled(last'.info)
              /\ drags' = Append(drags, last'.info.requests[1])
              /\ last'.info.requests[1].valuepairs = last'.info.updates
        /\ last'.op = "updateListItems" =>
              /\ InArray(last'.info.request, drags)
              /\ Len(drags') = Len(drags) - 1
              /\ last'.info.request.valuepairs # <<>>
        /\ last'.op # "updateListItems" => Len(drags') >= Len(drags) ]_vars

\* the callback emptied the updates array, or returned true, and the drop
\* left no update in flight that could settle its promise
C37_Witness ==
    /\ last.op = "drop"
    /\ options.onPreUpdate
    /\ Cancelled(last.info)
    /\ last.info.edit = "clear" \/ last.info.ret = "true"
    /\ drags = <<>>


---------------------------------------------------------------------------
(* C38: a refresh whose fetch fails                                        *)

\* the last handler was the failure of the fetch of a refresh
RefreshFailed == pc = "ready" /\ last.op = "getListItems" /\ ~last.info.resolved

\* C38: the failure of the fetch of a refresh leaves the items, their
\* columns, the header totals, the columns with their visibility and the
\* stored rows as they were, emits no event and requests nothing again: the
\* fetch is gone and no fetch is added.  The board stays ready, and a refresh
\* called after the failure requests a fetch as any refresh does.
C38_FailedRefresh ==
    [][ /\ RefreshFailed' =>
              /\ dataEle' = dataEle
              /\ headerTotalEle' = headerTotalEle
              /\ states' = states
              /\ statesMap' = statesMap
              /\ showNumberOfColumns' = showNumberOfColumns
              /\ listItems' = listItems
              /\ eleClass' = eleClass
              /\ last'.events = <<>>
              /\ Len(fetches') = Len(fetches) - 1
              /\ \A k \in 1..Len(fetches') : fetches'[k] \in Range(fetches)
        /\ (RefreshFailed /\ last'.op = "refresh") =>
              /\ ~last'.info.ignored
              /\ fetches' = Append(fetches, FALSE) ]_vars

\* the only fetch in flight has failed on a board that shows items, and no
\* fetch is in flight
C38_Witness ==
    /\ RefreshFailed
    /\ fetches = <<>>
    /\ AllItems(dataEle) # <<>>
    /\ headerTotalEle = [c \in 1..Len(dataEle) |-> Len(dataEle[c])]


---------------------------------------------------------------------------
(* C39: what a call does to an element by how far its board has come       *)

\* the calls by a method name
MethodOps == {"refresh", "setVisible", "getColumns"}

\* C39: a call by a method name on an element whose board is not ready, one
\* that never had a board or one that is loading it, changes nothing; a
\* call with options on an element that is loading a board or has one
\* changes nothing; and an element whose initialization failed, at the
\* resolution of the states or at the first fetch, stays marked as loading
\* and nothing changes on it any more.
C39_LifecycleGating ==
    [][ LET ready == hasBoard /\ ~isLoading
            frame == UNCHANGED << list, options, eleClass, pc, states, statesMap,
                                  showNumberOfColumns, initDone, listItems,
                                  dataEle, headerTotalEle, fetches, drags >>
        IN /\ (last'.op \in MethodOps /\ ~ready) => frame
           /\ (last'.op = "showBoard" /\ (hasBoard \/ isLoading)) => frame
           /\ pc \in {"failed", "stuck"} => (frame /\ isLoading) ]_vars

====
